---- MODULE Spec2Model ----
(***************************************************************************)
(* The ETL orchestrator of metric-pulse (ETLPipeline.run / runForSource)   *)
(* together with the PostgresLoader calls it makes, as a state machine.    *)
(* One step is one awaited external call (connector, store) or one         *)
(* synchronous block of the pipeline.                                      *)
(***************************************************************************)
EXTENDS Integers, Sequences, FiniteSets, TLC

\* ------------------------------------------------------------------ bounds
\* run() invocations explored in one behaviour
MaxRuns == 2
\* failing external calls and malformed records injected in one behaviour
MaxFaults == 2

\* ------------------------------------------------------------ basic values
\* JavaScript null / undefined for timestamps and row ids (both start at 1)
NULL == 0
\* a null or absent e-mail address ('' and null are both falsy in the code)
NoEmail == ""
\* error_message of a log whose run did not fail (the field is undefined)
NoMessage == << >>

\* run() visits the sources in this fixed order
Sources == <<"shopify", "woocommerce", "commercetools">>
SourceSet == {Sources[i] : i \in 1..Len(Sources)}


RECURSIVE SumSeq(_)
SumSeq(s) == IF s = << >> THEN 0 ELSE Head(s) + SumSeq(Tail(s))

RECURSIVE Flatten(_)
Flatten(ss) == IF ss = << >> THEN << >> ELSE Head(ss) \o Flatten(Tail(ss))

\* ------------------------------------------------- raw records (connector)
\* String.prototype.toLowerCase on the addresses the connectors deliver
ToLowerCase(e) ==
  CASE e = "Ann@Shop.com" -> "ann@shop.com"
    [] e = "BOB@SHOP.COM" -> "bob@shop.com"
    [] OTHER -> e

\* isNull marks a null element of the fetched array: reading a property of it
\* throws a TypeError inside the transformer
RawCustomer1 == [id |-> 1, email |-> "Ann@Shop.com", isNull |-> FALSE]
RawCustomer2 == [id |-> 2, email |-> NoEmail, isNull |-> FALSE]
NullCustomer == [id |-> 0, email |-> NoEmail, isNull |-> TRUE]

RawProduct1 == [id |-> 1, title |-> "shirt", isNull |-> FALSE]
NullProduct == [id |-> 0, title |-> "", isNull |-> TRUE]

RawItem1 == [product_id |-> 1, quantity |-> 2, price |-> 50, isNull |-> FALSE]
RawItem2 == [product_id |-> 7, quantity |-> 1, price |-> 30, isNull |-> FALSE]
NullItem == [product_id |-> 0, quantity |-> 0, price |-> 0, isNull |-> TRUE]

RawOrder1 ==
  [id |-> 1, email |-> "Ann@Shop.com", total_price |-> 100, processed_at |-> 1,
   line_items |-> <<RawItem1>>, isNull |-> FALSE]
RawOrder2 ==
  [id |-> 2, email |-> NoEmail, total_price |-> 30, processed_at |-> 5,
   line_items |-> <<RawItem2>>, isNull |-> FALSE]
RawOrderBadItem ==
  [id |-> 2, email |-> NoEmail, total_price |-> 30, processed_at |-> 5,
   line_items |-> <<RawItem2, NullItem>>, isNull |-> FALSE]
NullOrder ==
  [id |-> 0, email |-> NoEmail, total_price |-> 0, processed_at |-> 0,
   line_items |-> << >>, isNull |-> TRUE]

RawProduct2 == [id |-> 2, title |-> "mug", isNull |-> FALSE]

\* what a connector may return from getCustomers / getProducts / getOrders
CustomerBatches ==
  {<<RawCustomer1, RawCustomer2>>, <<RawCustomer1, NullCustomer>>}
ProductBatches == {<<RawProduct1, RawProduct2>>, <<RawProduct1, NullProduct>>}
OrderBatches ==
  {<<RawOrder1, RawOrder2>>, <<RawOrder1, NullOrder>>,
   <<RawOrder1, RawOrderBadItem>>}

HasNull(batch) == \E i \in 1..Len(batch) : batch[i].isNull
HasNullItem(batch) ==
  \E i \in 1..Len(batch) :
    ~batch[i].isNull /\ HasNull(batch[i].line_items)
\* a batch with a record the transformer cannot read counts as one fault
Malformed(batch) == IF HasNull(batch) THEN 1 ELSE 0
MalformedOrders(batch) ==
  IF HasNull(batch) \/ HasNullItem(batch) THEN 1 ELSE 0

\* --------------------------------------------------- DataTransformer (pure)
\* String(rawCustomer.id)
SourceId(id) == ToString(id)
\* String(rawItem.product_id || '')
SourceProductId(id) == IF id = 0 THEN "" ELSE ToString(id)

\* first_purchase_date / last_purchase_date are not set by the transformer
\* (undefined, stored as NULL)
transformCustomer(raw, sourceType) ==
  [source_id |-> SourceId(raw.id), source_type |-> sourceType,
   email |-> ToLowerCase(raw.email), last_purchase_date |-> NULL]

transformProduct(raw, sourceType) ==
  [source_id |-> SourceId(raw.id), source_type |-> sourceType,
   title |-> raw.title]

\* customer_id is not set by the transformer (undefined)
transformOrder(raw, sourceType) ==
  [source_id |-> SourceId(raw.id), source_type |-> sourceType,
   email |-> ToLowerCase(raw.email), total_price |-> raw.total_price,
   processed_at |-> raw.processed_at, customer_id |-> NULL]

\* the item carries no source_type: the parameter is not copied into it
\* (item.source_type is undefined, modelled as "")
transformOrderItem(raw, orderId, sourceType) ==
  [order_id |-> orderId, source_product_id |-> SourceProductId(raw.product_id),
   quantity |-> raw.quantity, price |-> raw.price,
   source_type |-> "", source_order_id |-> ""]

transformCustomerBatch(batch, sourceType) ==
  [i \in 1..Len(batch) |-> transformCustomer(batch[i], sourceType)]
transformProductBatch(batch, sourceType) ==
  [i \in 1..Len(batch) |-> transformProduct(batch[i], sourceType)]

\* the items of one raw order, tagged with the order's source id
ItemsOfRawOrder(raw, sourceType) ==
  [j \in 1..Len(raw.line_items) |->
     [transformOrderItem(raw.line_items[j], NULL, sourceType)
        EXCEPT !.source_order_id = SourceId(raw.id)]]

\* a transformData whose line items are never read
TransformThrowsOutsideItems(data) ==
  HasNull(data.customers) \/ HasNull(data.products) \/ HasNull(data.orders)

\* ETLPipeline.transformData: TRUE when some transformX call throws
TransformThrows(data) ==
  HasNull(data.customers) \/ HasNull(data.products)
    \/ HasNull(data.orders) \/ HasNullItem(data.orders)

TransformedData(data, sourceType) ==
  [customers |-> transformCustomerBatch(data.customers, sourceType),
   products |-> transformProductBatch(data.products, sourceType),
   orders |-> [i \in 1..Len(data.orders) |->
                 transformOrder(data.orders[i], sourceType)],
   orderItems |-> Flatten([i \in 1..Len(data.orders) |->
                             ItemsOfRawOrder(data.orders[i], sourceType)])]

\* ----------------------------------------------------------- error messages
\* an Error's message, as its words in order
MsgNotInitialized(sourceType) ==
  <<"Connector", "for", sourceType, "not", "initialized">>
\* a connection error worded differently
MsgSourceUnreachable(sourceType) == <<"Source", sourceType, "unreachable">>
MsgFailedToConnect(sourceType) == <<"Failed", "to", "connect", "to", sourceType>>
MsgTypeError == <<"Cannot", "read", "properties", "of", "null">>
\* the message of the error a failing connector or store call rejects with
MsgOf(call) == <<call, "rejected">>
Contains(msg, word) == \E i \in 1..Len(msg) : msg[i] = word

\* ------------------------------------------------------ PostgresLoader (SQL)
\* The store: one sequence of rows per table; a row's id is its position
\* (SERIAL). A query that fails leaves its table as it was.
EmptyDb ==
  [customers |-> << >>, products |-> << >>, orders |-> << >>,
   order_items |-> << >>, customer_metrics |-> << >>, daily_metrics |-> << >>,
   etl_logs |-> << >>]

\* position of the row of `table` with the unique key (source_id, source_type),
\* 0 when there is none
RowOf(table, sourceId, sourceType) ==
  IF \E i \in 1..Len(table) :
       table[i].source_id = sourceId /\ table[i].source_type = sourceType
  THEN CHOOSE i \in 1..Len(table) :
         table[i].source_id = sourceId /\ table[i].source_type = sourceType
  ELSE 0

\* INSERT INTO customers ... ON CONFLICT (source_id, source_type) DO UPDATE:
\* the update overwrites last_purchase_date and keeps first_purchase_date
upsertCustomer(table, customer) ==
  LET at == RowOf(table, customer.source_id, customer.source_type) IN
    IF at = 0
    THEN Append(table,
           [id |-> Len(table) + 1, source_id |-> customer.source_id,
            source_type |-> customer.source_type, email |-> customer.email,
            first_purchase_date |-> NULL,
            last_purchase_date |-> customer.last_purchase_date])
    ELSE [table EXCEPT ![at].email = customer.email,
                       ![at].last_purchase_date = customer.last_purchase_date]

upsertProduct(table, product) ==
  LET at == RowOf(table, product.source_id, product.source_type) IN
    IF at = 0
    THEN Append(table,
           [id |-> Len(table) + 1, source_id |-> product.source_id,
            source_type |-> product.source_type, title |-> product.title])
    ELSE [table EXCEPT ![at].title = product.title]

\* an order stored with the customer id the transformer gave it
OrderCustomerIdUnlinked(order, customerId) == order.customer_id

\* customerId || order.customer_id
OrderCustomerId(order, customerId) ==
  IF customerId # NULL THEN customerId ELSE order.customer_id

upsertOrder(table, order, customerId) ==
  LET at == RowOf(table, order.source_id, order.source_type) IN
    IF at = 0
    THEN Append(table,
           [id |-> Len(table) + 1, source_id |-> order.source_id,
            source_type |-> order.source_type,
            customer_id |-> OrderCustomerId(order, customerId),
            email |-> order.email, total_price |-> order.total_price,
            processed_at |-> order.processed_at])
    ELSE [table EXCEPT ![at].customer_id = OrderCustomerId(order, customerId),
                       ![at].email = order.email,
                       ![at].total_price = order.total_price,
                       ![at].processed_at = order.processed_at]

\* SELECT id FROM customers WHERE email = $1 AND source_type = $2 LIMIT 1
\* (queryOk = FALSE: the query throws, the error is logged, null is returned)
findCustomerId(table, email, sourceType, queryOk) ==
  LET hits == {i \in 1..Len(table) :
                 table[i].email = ToLowerCase(email)
                   /\ table[i].source_type = sourceType} IN
    IF email = NoEmail \/ ~queryOk \/ hits = {} THEN NULL
    ELSE CHOOSE i \in hits : \A j \in hits : i <= j

\* SELECT id FROM products WHERE source_id = $1 AND source_type = $2 LIMIT 1
findProductId(table, sourceProductId, sourceType, queryOk) ==
  IF sourceProductId = "" \/ ~queryOk THEN NULL
  ELSE RowOf(table, sourceProductId, sourceType)

\* the order_items row one INSERT of insertOrderItems adds
OrderItemRow(table, item, orderId, productId) ==
  [id |-> Len(table) + 1, order_id |-> orderId, product_id |-> productId,
   source_product_id |-> item.source_product_id, quantity |-> item.quantity,
   price |-> item.price]

\* a lookup without the source_type condition of the WHERE clause
getLastETLRunAnySource(logs, pipelineName, sourceType, queryOk) ==
  LET hits == {i \in 1..Len(logs) :
                 logs[i].pipeline_name = pipelineName
                   /\ logs[i].status = "success"} IN
    IF ~queryOk \/ hits = {} THEN << >>
    ELSE <<logs[CHOOSE i \in hits :
                  \A j \in hits : logs[j].completed_at <= logs[i].completed_at]>>

\* a lookup that still answers with the last successful run when the query
\* throws
getLastETLRunDespiteError(logs, pipelineName, sourceType, queryOk) ==
  LET hits == {i \in 1..Len(logs) :
                 logs[i].pipeline_name = pipelineName
                   /\ logs[i].source_type = sourceType
                   /\ logs[i].status = "success"} IN
    IF hits = {} THEN << >>
    ELSE <<logs[CHOOSE i \in hits :
                  \A j \in hits : logs[j].completed_at <= logs[i].completed_at]>>

\* SELECT * FROM etl_logs WHERE pipeline_name = $1 AND source_type = $2
\*   AND status = 'success' ORDER BY completed_at DESC LIMIT 1
\* (<< >> for no row; queryOk = FALSE: the query throws, null is returned)
getLastETLRun(logs, pipelineName, sourceType, queryOk) ==
  LET hits == {i \in 1..Len(logs) :
                 logs[i].pipeline_name = pipelineName
                   /\ logs[i].source_type = sourceType
                   /\ logs[i].status = "success"} IN
    IF ~queryOk \/ hits = {} THEN << >>
    ELSE <<logs[CHOOSE i \in hits :
                  \A j \in hits : logs[j].completed_at <= logs[i].completed_at]>>

\* const since = lastRun ? new Date(lastRun.completed_at) : null
SinceOf(lastRun) == IF lastRun = << >> THEN NULL ELSE lastRun[1].completed_at

\* -------------------------------------------------------------------- state
VARIABLES
  enabled,         \* config.<source>.enabled, as the set of enabled sources
  connectors,      \* this.connectors, as the set of sources that have one
  db,              \* the PostgreSQL store
  now,             \* the clock new Date() reads
  runs,            \* run() invocations so far
  faults,          \* failures injected so far
  pc,              \* where the pipeline stands
  cur,             \* position in Sources of the source run() is at
  results,         \* run(): results[source], << >> for null
  outcome,         \* of the latest run(): "none", "running", "returned", "threw"
  etlLog,          \* runForSource: the run's log entry
  since,           \* runForSource: the watermark passed to the connector
  extractedData,   \* runForSource: what extractData returned
  transformedData, \* runForSource: what transformData returned
  loadResults,     \* loadData: results
  i,               \* index of the loop the run is in
  rows,            \* calculateMetrics: customersWithOrders
  calculationDate, \* calculateMetrics: calculationDate
  error,           \* the error being thrown (its message)
  calls,           \* history: the external calls of the current runForSource
  started,         \* history: sources runForSource was called for in this run()
  failedAt,        \* history: per source, the stage its run failed in ("" = none)
  calc,            \* CLVCalculator: the call made last, its arguments and result
  sourceUpdate     \* history: a record changed at a source while a run was on

vars ==
  <<enabled, connectors, db, now, runs, faults, pc, cur, results, outcome,
    etlLog, since, extractedData, transformedData, loadResults, i, rows,
    calculationDate, error, calls, started, failedAt, calc, sourceUpdate>>

\* variables only run() and the constructor write
runVars == <<enabled, connectors, runs, cur, results, outcome, started>>
\* variables of the stages after extraction
loadVars == <<transformedData, loadResults, i, rows, calculationDate>>

sourceType == Sources[cur]

EmptyData == [customers |-> << >>, products |-> << >>, orders |-> << >>]
EmptyTransformed ==
  [customers |-> << >>, products |-> << >>, orders |-> << >>,
   orderItems |-> << >>]
EmptyBatchResult == [inserted |-> << >>, failed |-> << >>]
EmptyLoadResults ==
  [customers |-> EmptyBatchResult, products |-> EmptyBatchResult,
   orders |-> EmptyBatchResult, orderItems |-> EmptyBatchResult,
   totalLoaded |-> 0]

\* const etlLog = {...} at the top of runForSource (metadata {} is << >>)
NewEtlLog(src, startedAt) ==
  [pipeline_name |-> "main_etl", source_type |-> src, status |-> "running",
   records_extracted |-> 0, records_transformed |-> 0, records_loaded |-> 0,
   started_at |-> startedAt, completed_at |-> NULL, duration_seconds |-> 0,
   error_message |-> NoMessage, metadata |-> << >>]

\* Math.floor((completed_at - started_at) / 1000)
DurationSeconds(startedAt, completedAt) == (completedAt - startedAt) \div 1000

\* one entry of the call history: a store or connection call, and a fetch
\* with the `since` argument it was given
Call(op, key, ok) == [op |-> op, key |-> key, since |-> NULL, ok |-> ok]
Fetch(op, sinceArg, ok) == [op |-> op, key |-> "", since |-> sinceArg, ok |-> ok]

\* no call of the calculator has been made
NoCall == [op |-> "none"]
\* no record was changed at a source during a run
NoUpdate == [source |-> ""]

Init ==
  /\ enabled \in SUBSET SourceSet
  /\ connectors = {}
  /\ db = EmptyDb
  /\ now = 1
  /\ runs = 0
  /\ faults = 0
  /\ pc = "idle"
  /\ cur = 1
  /\ results = [s \in SourceSet |-> << >>]
  /\ outcome = "none"
  /\ etlLog = NewEtlLog("", NULL)
  /\ since = NULL
  /\ extractedData = EmptyData
  /\ transformedData = EmptyTransformed
  /\ loadResults = EmptyLoadResults
  /\ i = 1
  /\ rows = << >>
  /\ calculationDate = NULL
  /\ error = NoMessage
  /\ calls = << >>
  /\ started = {}
  /\ failedAt = [s \in SourceSet |-> ""]
  /\ calc = NoCall
  /\ sourceUpdate = NoUpdate

\* ---------------------------------------------------------- ETLPipeline.run
\* new ETLPipeline() (one connector per enabled source), then run() up to the
\* first source
StartRun ==
  /\ pc = "idle"
  /\ runs < MaxRuns
  /\ runs' = runs + 1
  /\ connectors' = enabled
  /\ results' = [s \in SourceSet |-> << >>]
  /\ outcome' = "running"
  /\ started' = {}
  /\ failedAt' = [s \in SourceSet |-> ""]
  /\ cur' = 1
  /\ calls' = << >>
  /\ pc' = "run"
  /\ UNCHANGED <<enabled, db, now, faults, etlLog, since, extractedData,
                 loadVars, error>>
  /\ UNCHANGED <<calc, sourceUpdate>>

\* if (config.<source>.enabled) is false
SkipSource ==
  /\ pc = "run"
  /\ cur <= Len(Sources)
  /\ sourceType \notin enabled
  /\ cur' = cur + 1
  /\ UNCHANGED <<enabled, connectors, db, now, runs, faults, pc, results,
                 outcome, etlLog, since, extractedData, loadVars, error, calls,
                 started, failedAt>>
  /\ UNCHANGED <<calc, sourceUpdate>>

\* runForSource(sourceType) is called: its locals are fresh
BeginRunForSource ==
  /\ pc = "run"
  /\ cur <= Len(Sources)
  /\ sourceType \in enabled
  /\ started' = started \cup {sourceType}
  /\ etlLog' = NewEtlLog(sourceType, now)
  /\ since' = NULL
  /\ extractedData' = EmptyData
  /\ transformedData' = EmptyTransformed
  /\ loadResults' = EmptyLoadResults
  /\ i' = 1
  /\ rows' = << >>
  /\ calculationDate' = NULL
  /\ error' = NoMessage
  /\ calls' = << >>
  /\ pc' = "connecting"
  /\ UNCHANGED <<enabled, connectors, db, now, runs, faults, cur, results,
                 outcome, failedAt>>
  /\ UNCHANGED <<calc, sourceUpdate>>

\* return results
ReturnResults ==
  /\ pc = "run"
  /\ cur > Len(Sources)
  /\ outcome' = "returned"
  /\ pc' = "idle"
  /\ UNCHANGED <<enabled, connectors, db, now, runs, faults, cur, results,
                 etlLog, since, extractedData, loadVars, error, calls, started,
                 failedAt>>
  /\ UNCHANGED <<calc, sourceUpdate>>

\* catch (error) { logger.error(...); throw error; } of run()
RunCatch ==
  /\ pc = "runCatch"
  /\ outcome' = "threw"
  /\ pc' = "idle"
  /\ UNCHANGED <<enabled, connectors, db, now, runs, faults, cur, results,
                 etlLog, since, extractedData, loadVars, error, calls, started,
                 failedAt>>
  /\ UNCHANGED <<calc, sourceUpdate>>

\* ------------------------------------------------- ETLPipeline.runForSource
\* an error with message `msg` is thrown inside the try block, in `stage`
Throw(msg, stage) ==
  /\ error' = msg
  /\ failedAt' = [failedAt EXCEPT ![sourceType] = stage]
  /\ pc' = "catch"

\* a call that may fail: it fails only while the fault budget lasts
MayFail(ok) ==
  /\ ok \/ faults < MaxFaults
  /\ faults' = faults + (IF ok THEN 0 ELSE 1)

\* const connector = this.connectors[sourceType]; connector.testConnection()
TestConnection ==
  /\ pc = "connecting"
  /\ IF sourceType \notin connectors
     THEN /\ Throw(MsgNotInitialized(sourceType), "Connecting")
          /\ UNCHANGED <<faults, calls>>
     ELSE \E connectionOk \in BOOLEAN :
            /\ MayFail(connectionOk)
            /\ calls' = Append(calls, Call("testConnection", "", connectionOk))
            /\ IF connectionOk
               THEN pc' = "watermark" /\ UNCHANGED <<error, failedAt>>
               ELSE Throw(MsgFailedToConnect(sourceType), "Connecting")
  /\ UNCHANGED <<runVars, db, now, etlLog, since, extractedData, loadVars>>
  /\ UNCHANGED <<calc, sourceUpdate>>

\* const lastRun = await this.loader.getLastETLRun('main_etl', sourceType)
GetLastETLRun ==
  /\ pc = "watermark"
  /\ \E queryOk \in BOOLEAN :
       /\ MayFail(queryOk)
       /\ since' = SinceOf(getLastETLRun(db.etl_logs, "main_etl", sourceType,
                                         queryOk))
       /\ calls' = Append(calls, Call("getLastETLRun", "", queryOk))
  /\ pc' = "getCustomers"
  /\ UNCHANGED <<runVars, db, now, etlLog, extractedData, loadVars, error,
                 failedAt>>
  /\ UNCHANGED <<calc, sourceUpdate>>

\* an extractData that fetches the orders before the products
AfterFetchPcOrdersFirst(op) ==
  CASE op = "getCustomers" -> "getOrders"
    [] op = "getOrders" -> "getProducts"
    [] op = "getProducts" -> "transform"

\* an extraction that hands the raw records to the loader
AfterFetchPcUntransformed(op) ==
  CASE op = "getCustomers" -> "getProducts"
    [] op = "getProducts" -> "getOrders"
    [] op = "getOrders" -> "purchaseDates"

\* ETLPipeline.extractData: what follows a fetch that returned
AfterFetchPc(op) ==
  CASE op = "getCustomers" -> "getProducts"
    [] op = "getProducts" -> "getOrders"
    [] op = "getOrders" -> "transform"

\* ETLPipeline.extractData: data.customers = await connector.getCustomers(since)
GetCustomers ==
  /\ pc = "getCustomers"
  /\ \/ \E batch \in CustomerBatches :
          /\ faults + Malformed(batch) <= MaxFaults
          /\ faults' = faults + Malformed(batch)
          /\ extractedData' = [extractedData EXCEPT !.customers = batch]
          /\ calls' = Append(calls, Fetch("getCustomers", since, TRUE))
          /\ pc' = AfterFetchPc("getCustomers")
          /\ UNCHANGED <<error, failedAt>>
     \/ /\ MayFail(FALSE)
        /\ calls' = Append(calls, Fetch("getCustomers", since, FALSE))
        /\ Throw(MsgOf("getCustomers"), "Extracting")
        /\ UNCHANGED extractedData
  /\ UNCHANGED <<runVars, db, now, etlLog, since, loadVars>>
  /\ UNCHANGED <<calc, sourceUpdate>>

\* data.products = await connector.getProducts(since)
GetProducts ==
  /\ pc = "getProducts"
  /\ \/ \E batch \in ProductBatches :
          /\ faults + Malformed(batch) <= MaxFaults
          /\ faults' = faults + Malformed(batch)
          /\ extractedData' = [extractedData EXCEPT !.products = batch]
          /\ calls' = Append(calls, Fetch("getProducts", since, TRUE))
          /\ pc' = AfterFetchPc("getProducts")
          /\ UNCHANGED <<error, failedAt>>
     \/ /\ MayFail(FALSE)
        /\ calls' = Append(calls, Fetch("getProducts", since, FALSE))
        /\ Throw(MsgOf("getProducts"), "Extracting")
        /\ UNCHANGED extractedData
  /\ UNCHANGED <<runVars, db, now, etlLog, since, loadVars>>
  /\ UNCHANGED <<calc, sourceUpdate>>

\* customers + products + orders of the extracted data
RecordsExtracted(data) ==
  Len(data.customers) + Len(data.products) + Len(data.orders)

\* data.orders = await connector.getOrders(since), then extractData returns
\* and runForSource sets etlLog.records_extracted
GetOrders ==
  /\ pc = "getOrders"
  /\ \/ \E batch \in OrderBatches :
          /\ faults + MalformedOrders(batch) <= MaxFaults
          /\ faults' = faults + MalformedOrders(batch)
          /\ extractedData' = [extractedData EXCEPT !.orders = batch]
          /\ etlLog' = [etlLog EXCEPT !.records_extracted =
                          RecordsExtracted(extractedData')]
          /\ calls' = Append(calls, Fetch("getOrders", since, TRUE))
          /\ pc' = AfterFetchPc("getOrders")
          /\ UNCHANGED <<error, failedAt>>
     \/ /\ MayFail(FALSE)
        /\ calls' = Append(calls, Fetch("getOrders", since, FALSE))
        /\ Throw(MsgOf("getOrders"), "Extracting")
        /\ UNCHANGED <<extractedData, etlLog>>
  /\ UNCHANGED <<runVars, db, now, since, loadVars>>
  /\ UNCHANGED <<calc, sourceUpdate>>

\* where loadData goes next: a loop over an empty list has no iteration
AfterProductsPc(data) ==
  IF Len(data.orders) > 0 THEN "loadOrders" ELSE "purchaseDates"
AfterCustomersPc(data) ==
  IF Len(data.products) > 0 THEN "upsertProducts" ELSE AfterProductsPc(data)
AfterTransformPc(data) ==
  IF Len(data.customers) > 0 THEN "upsertCustomers" ELSE AfterCustomersPc(data)

\* customers + products + orders of the transformed data
RecordsTransformed(data) ==
  Len(data.customers) + Len(data.products) + Len(data.orders)

\* ETLPipeline.transformData (synchronous), then runForSource sets
\* etlLog.records_transformed and calls loadData
TransformData ==
  /\ pc = "transform"
  /\ IF TransformThrows(extractedData)
     THEN /\ Throw(MsgTypeError, "Transforming")
          /\ UNCHANGED <<transformedData, etlLog, loadResults, i>>
     ELSE /\ transformedData' = TransformedData(extractedData, sourceType)
          /\ etlLog' = [etlLog EXCEPT !.records_transformed =
                          RecordsTransformed(transformedData')]
          /\ loadResults' = EmptyLoadResults
          /\ i' = 1
          /\ pc' = AfterTransformPc(transformedData')
          /\ UNCHANGED <<error, failedAt>>
  /\ UNCHANGED <<runVars, db, now, faults, since, extractedData, rows,
                 calculationDate, calls>>
  /\ UNCHANGED <<calc, sourceUpdate>>

\* entries of the inserted / failed lists: the entity's key and its row id or
\* the error's message
Inserted(key, id) == [key |-> key, id |-> id]
Failed(key, msg) == [key |-> key, error |-> msg]

\* a loop body whose catch records nothing
BatchStepSilent(result, key, id, ok, msg) ==
  IF ok THEN [result EXCEPT !.inserted = Append(@, Inserted(key, id))]
  ELSE result

\* the body of the loop of upsertCustomerBatch / upsertProductBatch:
\* try { inserted.push(...) } catch (error) { failed.push(...) }
BatchStep(result, key, id, ok, msg) ==
  IF ok THEN [result EXCEPT !.inserted = Append(@, Inserted(key, id))]
  ELSE [result EXCEPT !.failed = Append(@, Failed(key, msg))]

\* PostgresLoader.upsertCustomerBatch: one iteration of its loop
UpsertCustomer ==
  /\ pc = "upsertCustomers"
  /\ LET customer == transformedData.customers[i] IN
       \E ok \in BOOLEAN :
         /\ MayFail(ok)
         /\ calls' = Append(calls, Call("upsertCustomer", customer.source_id, ok))
         /\ LET table == IF ok THEN upsertCustomer(db.customers, customer)
                         ELSE db.customers
                id == RowOf(table, customer.source_id, customer.source_type)
            IN /\ db' = [db EXCEPT !.customers = table]
               /\ loadResults' =
                    [loadResults EXCEPT !.customers =
                       BatchStep(@, customer.source_id, id, ok,
                                 MsgOf("upsertCustomer"))]
  /\ IF i < Len(transformedData.customers)
     THEN i' = i + 1 /\ UNCHANGED pc
     ELSE i' = 1 /\ pc' = AfterCustomersPc(transformedData)
  /\ UNCHANGED <<runVars, now, etlLog, since, extractedData, transformedData,
                 rows, calculationDate, error, failedAt>>
  /\ UNCHANGED <<calc, sourceUpdate>>

\* PostgresLoader.upsertProductBatch: one iteration of its loop
UpsertProduct ==
  /\ pc = "upsertProducts"
  /\ LET product == transformedData.products[i] IN
       \E ok \in BOOLEAN :
         /\ MayFail(ok)
         /\ calls' = Append(calls, Call("upsertProduct", product.source_id, ok))
         /\ LET table == IF ok THEN upsertProduct(db.products, product)
                         ELSE db.products
                id == RowOf(table, product.source_id, product.source_type)
            IN /\ db' = [db EXCEPT !.products = table]
               /\ loadResults' =
                    [loadResults EXCEPT !.products =
                       BatchStep(@, product.source_id, id, ok,
                                 MsgOf("upsertProduct"))]
  /\ IF i < Len(transformedData.products)
     THEN i' = i + 1 /\ UNCHANGED pc
     ELSE i' = 1 /\ pc' = AfterProductsPc(transformedData)
  /\ UNCHANGED <<runVars, now, etlLog, since, extractedData, transformedData,
                 rows, calculationDate, error, failedAt>>
  /\ UNCHANGED <<calc, sourceUpdate>>

\* PostgresLoader.insertOrderItems from item k on: per item findProductId,
\* then the INSERT; an INSERT that fails is logged and the item is left out.
\* Gives the table, the list returned and the calls made.
RECURSIVE insertOrderItems(_, _, _, _, _, _, _)
insertOrderItems(table, products, items, orderId, insertOk, lookupOk, k) ==
  IF k > Len(items)
  THEN [table |-> table, inserted |-> << >>, calls |-> << >>]
  ELSE
    LET item == items[k]
        productId == findProductId(products, item.source_product_id,
                                   item.source_type, lookupOk[k])
        row == OrderItemRow(table, item, orderId, productId)
        rest == insertOrderItems(IF insertOk[k] THEN Append(table, row) ELSE table,
                                 products, items, orderId, insertOk, lookupOk,
                                 k + 1)
    IN [table |-> rest.table,
        inserted |->
          (IF insertOk[k] THEN <<Inserted(item.source_product_id, row.id)>>
           ELSE << >>) \o rest.inserted,
        calls |->
          (IF item.source_product_id = "" THEN << >>
           ELSE <<Call("findProductId", item.source_product_id, lookupOk[k])>>)
          \o <<Call("insertOrderItem", item.source_product_id, insertOk[k])>>
          \o rest.calls]

\* number of FALSE entries of a sequence of booleans
Failures(oks) == Cardinality({k \in 1..Len(oks) : ~oks[k]})

\* ETLPipeline.loadData: one iteration of the loop over data.orders
LoadOrder ==
  /\ pc = "loadOrders"
  /\ LET order == transformedData.orders[i]
         orderItems == SelectSeq(transformedData.orderItems,
                         LAMBDA item : item.source_order_id = order.source_id)
         n == Len(orderItems)
     IN
       \E findOk \in BOOLEAN, upsertOk \in BOOLEAN,
          insertOk \in [1..n -> BOOLEAN], lookupOk \in [1..n -> BOOLEAN] :
         \* calls that are not made do not fail
         /\ order.email = NoEmail => findOk
         /\ ~upsertOk => Failures(insertOk) + Failures(lookupOk) = 0
         /\ \A k \in 1..n : orderItems[k].source_product_id = "" => lookupOk[k]
         /\ LET nFaults == (IF findOk THEN 0 ELSE 1) + (IF upsertOk THEN 0 ELSE 1)
                             + Failures(insertOk) + Failures(lookupOk)
                customerId == findCustomerId(db.customers, order.email,
                                             sourceType, findOk)
                orders == upsertOrder(db.orders, order, customerId)
                orderId == RowOf(orders, order.source_id, order.source_type)
                items == insertOrderItems(db.order_items, db.products,
                                          orderItems, orderId, insertOk,
                                          lookupOk, 1)
                findCall == IF order.email = NoEmail THEN << >>
                            ELSE <<Call("findCustomerId", order.email, findOk)>>
            IN
              /\ faults + nFaults <= MaxFaults
              /\ faults' = faults + nFaults
              /\ IF upsertOk
                 THEN /\ db' = [db EXCEPT !.orders = orders,
                                          !.order_items = items.table]
                      /\ loadResults' =
                           [loadResults EXCEPT
                              !.orderItems.inserted = @ \o items.inserted,
                              !.orders.inserted =
                                 Append(@, Inserted(order.source_id, orderId))]
                      /\ calls' = calls \o findCall
                                    \o <<Call("upsertOrder", order.source_id, TRUE)>>
                                    \o items.calls
                 ELSE /\ UNCHANGED db
                      /\ loadResults' =
                           [loadResults EXCEPT !.orders.failed =
                              Append(@, Failed(order.source_id,
                                               MsgOf("upsertOrder")))]
                      /\ calls' = calls \o findCall
                                    \o <<Call("upsertOrder", order.source_id, FALSE)>>
  /\ IF i < Len(transformedData.orders)
     THEN i' = i + 1 /\ UNCHANGED pc
     ELSE i' = 1 /\ pc' = "purchaseDates"
  /\ UNCHANGED <<runVars, now, etlLog, since, extractedData, transformedData,
                 rows, calculationDate, error, failedAt>>
  /\ UNCHANGED <<calc, sourceUpdate>>

\* DATE(ts) / a DATE column: the clock counts quarters of a day
DateOf(ts) == ts \div 4

Min(S) == CHOOSE x \in S : \A y \in S : x <= y
Max(S) == CHOOSE x \in S : \A y \in S : y <= x

\* processed_at of the orders linked to customer `id` (NULLs are ignored by
\* MIN and MAX)
ProcessedAtOf(orders, id) ==
  {orders[k].processed_at : k \in {j \in 1..Len(orders) :
     orders[j].customer_id = id /\ orders[j].processed_at # NULL}}

\* the UPDATE customers ... WHERE source_type = $1 of
\* updateCustomerPurchaseDates, with its COALESCEs
UpdatePurchaseDates(customers, orders, src) ==
  [k \in 1..Len(customers) |->
     LET times == ProcessedAtOf(orders, customers[k].id) IN
       IF customers[k].source_type = src /\ times # {}
       THEN [customers[k] EXCEPT !.first_purchase_date = Min(times),
                                 !.last_purchase_date = Max(times)]
       ELSE customers[k]]

\* a totalLoaded that leaves the order items out
TotalLoadedWithoutItems(r) ==
  Len(r.customers.inserted) + Len(r.products.inserted) + Len(r.orders.inserted)

\* results.totalLoaded of loadData
TotalLoaded(r) ==
  Len(r.customers.inserted) + Len(r.products.inserted)
    + Len(r.orders.inserted) + Len(r.orderItems.inserted)

\* ETLPipeline.updateCustomerPurchaseDates (a failing UPDATE is logged and
\* swallowed), then loadData sums totalLoaded and returns, and runForSource
\* sets etlLog.records_loaded and calls calculateMetrics
UpdateCustomerPurchaseDates ==
  /\ pc = "purchaseDates"
  /\ \E ok \in BOOLEAN :
       /\ MayFail(ok)
       /\ calls' = Append(calls, Call("updatePurchaseDates", "", ok))
       /\ db' = IF ok
                THEN [db EXCEPT !.customers =
                        UpdatePurchaseDates(db.customers, db.orders, sourceType)]
                ELSE db
  /\ loadResults' = [loadResults EXCEPT !.totalLoaded = TotalLoaded(loadResults)]
  /\ etlLog' = [etlLog EXCEPT !.records_loaded = loadResults'.totalLoaded]
  /\ calculationDate' = now
  /\ pc' = "customersQuery"
  /\ UNCHANGED <<runVars, now, since, extractedData, transformedData, i, rows,
                 error, failedAt>>
  /\ UNCHANGED <<calc, sourceUpdate>>

\* s ordered by processed_at (ORDER BY o.processed_at; the sort of
\* calculateCustomerMetrics)
RECURSIVE SortByProcessedAt(_)
SortByProcessedAt(s) ==
  IF s = << >> THEN << >>
  ELSE LET k == CHOOSE a \in 1..Len(s) :
                  /\ \A b \in 1..Len(s) : s[a].processed_at <= s[b].processed_at
                  /\ \A b \in 1..(a - 1) : s[b].processed_at # s[a].processed_at
       IN <<s[k]>> \o SortByProcessedAt(SubSeq(s, 1, k - 1)
                                          \o SubSeq(s, k + 1, Len(s)))

\* customersQuery of calculateMetrics: every customer of the source with the
\* orders linked to it (a field the calculator reads with `|| 0` is << >> when
\* it is missing and <<n>> when it is the number n)
CustomersWithOrders(d, src) ==
  LET cs == SelectSeq(d.customers, LAMBDA c : c.source_type = src) IN
    [k \in 1..Len(cs) |->
       [customer |-> cs[k],
        orders |-> LET os == SortByProcessedAt(
                                 SelectSeq(d.orders,
                                           LAMBDA o : o.customer_id = cs[k].id))
                   IN [j \in 1..Len(os) |->
                         [id |-> os[j].id, customer_id |-> os[j].customer_id,
                          total_price |-> <<os[j].total_price>>,
                          processed_at |-> os[j].processed_at]]]]

\* ordersQuery of calculateMetrics: the source's orders of the calculation day,
\* each with its line_items (<< >> for the NULL of an order without items,
\* <<items>> for an array)
DailyOrders(d, src, date) ==
  LET os == SelectSeq(d.orders,
                      LAMBDA o : o.source_type = src
                                   /\ DateOf(o.processed_at) = DateOf(date))
      itemsOf(o) == SelectSeq(d.order_items, LAMBDA oi : oi.order_id = o.id)
  IN [j \in 1..Len(os) |->
        [id |-> os[j].id, customer_id |-> os[j].customer_id,
         total_price |-> <<os[j].total_price>>,
         processed_at |-> os[j].processed_at,
         line_items |->
           IF itemsOf(os[j]) = << >> THEN << >>
           ELSE <<[k \in 1..Len(itemsOf(os[j])) |->
                     [source_product_id |->
                        itemsOf(os[j])[k].source_product_id,
                      quantity |-> <<itemsOf(os[j])[k].quantity>>,
                      price |-> <<itemsOf(os[j])[k].price>>]]>>]]

\* ----------------------------------------------------------- CLVCalculator
\* JavaScript numbers that are not whole are kept as exact fractions n/d in
\* lowest terms with d > 0
RECURSIVE Gcd(_, _)
Gcd(a, b) == IF b = 0 THEN a ELSE Gcd(b, a % b)
Abs(x) == IF x < 0 THEN -x ELSE x
Rat(n, d) ==
  LET g == Gcd(Abs(n), Abs(d))
      s == IF d < 0 THEN -1 ELSE 1
  IN [n |-> (s * n) \div g, d |-> (s * d) \div g]
RatOfInt(x) == [n |-> x, d |-> 1]
RatAdd(a, b) == Rat(a.n * b.d + b.n * a.d, a.d * b.d)
RatSub(a, b) == Rat(a.n * b.d - b.n * a.d, a.d * b.d)
RatMul(a, b) == Rat(a.n * b.n, a.d * b.d)
RatDiv(a, b) == Rat(a.n * b.d, a.d * b.n)
RatLe(a, b) == a.n * b.d <= b.n * a.d
RatMax(a, b) == IF RatLe(a, b) THEN b ELSE a

\* differenceInDays of date-fns: the number of full days from `earlier` to
\* `later`, truncated towards zero (four clock ticks are one day)
differenceInDays(later, earlier) ==
  IF later >= earlier THEN (later - earlier) \div 4
  ELSE -((earlier - later) \div 4)

\* value || 0
OrZero(value) == IF value = << >> THEN 0 ELSE value[1]

\* orders.reduce((sum, order) => sum + (order.total_price || 0), 0)
calculateTotalRevenue(orders) ==
  SumSeq([k \in 1..Len(orders) |-> OrZero(orders[k].total_price)])

\* average_order_value * purchase_frequency * (customer_lifespan_days / 30)
calculateSimpleCLV(metrics) ==
  RatMul(RatMul(metrics.average_order_value, metrics.purchase_frequency),
         Rat(metrics.customer_lifespan_days, 30))

\* reads metrics.churn_probability as it is when the method is called
calculatePredictiveCLV(metrics) ==
  LET monthlyRevenue == RatMul(metrics.average_order_value,
                               metrics.purchase_frequency)
      retentionRate == RatSub(RatOfInt(1), metrics.churn_probability)
      discountRate == Rat(1, 120)
  IN IF RatLe(RatAdd(RatOfInt(1), discountRate), retentionRate)
     THEN RatMul(monthlyRevenue, RatOfInt(12 * 3))
     ELSE RatMul(monthlyRevenue,
                 RatDiv(retentionRate,
                        RatSub(RatAdd(RatOfInt(1), discountRate),
                               retentionRate)))

\* a step function whose first breakpoint belongs to the lower step
calculateChurnProbabilityThirtyLow(metrics) ==
  LET daysSinceLastPurchase ==
        IF metrics.days_since_last_purchase = << >> THEN 0
        ELSE metrics.days_since_last_purchase[1]
  IN IF daysSinceLastPurchase <= 30 THEN Rat(5, 100)
     ELSE IF daysSinceLastPurchase < 60 THEN Rat(15, 100)
     ELSE IF daysSinceLastPurchase < 90 THEN Rat(25, 100)
     ELSE IF daysSinceLastPurchase < 180 THEN Rat(45, 100)
     ELSE IF daysSinceLastPurchase < 365 THEN Rat(70, 100)
     ELSE Rat(90, 100)

\* days_since_last_purchase is << >> for null and <<n>> for the number n; in
\* a comparison null counts as 0
calculateChurnProbability(metrics) ==
  LET daysSinceLastPurchase ==
        IF metrics.days_since_last_purchase = << >> THEN 0
        ELSE metrics.days_since_last_purchase[1]
  IN IF daysSinceLastPurchase < 30 THEN Rat(5, 100)
     ELSE IF daysSinceLastPurchase < 60 THEN Rat(15, 100)
     ELSE IF daysSinceLastPurchase < 90 THEN Rat(25, 100)
     ELSE IF daysSinceLastPurchase < 180 THEN Rat(45, 100)
     ELSE IF daysSinceLastPurchase < 365 THEN Rat(70, 100)
     ELSE Rat(90, 100)

\* the recency is taken from the last element of `orders`
calculateRFMScores(customer, orders, date) ==
  LET lastOrderDate == orders[Len(orders)].processed_at
      daysSinceLastOrder == differenceInDays(date, lastOrderDate)
      recencyScore == IF daysSinceLastOrder <= 30 THEN 5
                      ELSE IF daysSinceLastOrder <= 60 THEN 4
                      ELSE IF daysSinceLastOrder <= 90 THEN 3
                      ELSE IF daysSinceLastOrder <= 180 THEN 2
                      ELSE 1
      orderCount == Len(orders)
      frequencyScore == IF orderCount >= 20 THEN 5
                        ELSE IF orderCount >= 10 THEN 4
                        ELSE IF orderCount >= 5 THEN 3
                        ELSE IF orderCount >= 2 THEN 2
                        ELSE 1
      totalSpent == calculateTotalRevenue(orders)
      monetaryScore == IF totalSpent >= 5000 THEN 5
                       ELSE IF totalSpent >= 2000 THEN 4
                       ELSE IF totalSpent >= 500 THEN 3
                       ELSE IF totalSpent >= 100 THEN 2
                       ELSE 1
  IN [recency |-> recencyScore, frequency |-> frequencyScore,
      monetary |-> monetaryScore,
      combinedScore |-> recencyScore + frequencyScore + monetaryScore]

\* a decision list that asks for Loyal Customers before Champions
determineSegmentLoyalFirst(rfmScores) ==
  LET recency == rfmScores.recency
      frequency == rfmScores.frequency
      monetary == rfmScores.monetary
      combinedScore == rfmScores.combinedScore
  IN IF frequency >= 3 /\ monetary >= 3 /\ combinedScore >= 9
       THEN "Loyal Customers"
     ELSE IF recency >= 4 /\ frequency >= 4 /\ monetary >= 4 THEN "Champions"
     ELSE IF recency >= 3 /\ frequency >= 2 /\ combinedScore >= 7
       THEN "Potential Loyalists"
     ELSE IF recency >= 4 /\ frequency <= 2 THEN "New Customers"
     ELSE IF recency <= 2 /\ frequency >= 3 /\ monetary >= 3 THEN "At Risk"
     ELSE IF recency <= 2 /\ monetary >= 4 THEN "Cannot Lose"
     ELSE IF recency <= 2 /\ frequency <= 2 /\ monetary <= 2 THEN "Hibernating"
     ELSE IF monetary <= 2 /\ frequency >= 3 THEN "Price Sensitive"
     ELSE "Regular"

determineSegment(rfmScores) ==
  LET recency == rfmScores.recency
      frequency == rfmScores.frequency
      monetary == rfmScores.monetary
      combinedScore == rfmScores.combinedScore
  IN IF recency >= 4 /\ frequency >= 4 /\ monetary >= 4 THEN "Champions"
     ELSE IF frequency >= 3 /\ monetary >= 3 /\ combinedScore >= 9
       THEN "Loyal Customers"
     ELSE IF recency >= 3 /\ frequency >= 2 /\ combinedScore >= 7
       THEN "Potential Loyalists"
     ELSE IF recency >= 4 /\ frequency <= 2 THEN "New Customers"
     ELSE IF recency <= 2 /\ frequency >= 3 /\ monetary >= 3 THEN "At Risk"
     ELSE IF recency <= 2 /\ monetary >= 4 THEN "Cannot Lose"
     ELSE IF recency <= 2 /\ frequency <= 2 /\ monetary <= 2 THEN "Hibernating"
     ELSE IF monetary <= 2 /\ frequency >= 3 THEN "Price Sensitive"
     ELSE "Regular"

getEmptyMetrics(customerId, date) ==
  [customer_id |-> customerId, calculation_date |-> date,
   total_revenue |-> 0, total_orders |-> 0,
   average_order_value |-> RatOfInt(0), purchase_frequency |-> RatOfInt(0),
   customer_lifespan_days |-> 0, customer_lifetime_value |-> RatOfInt(0),
   churn_probability |-> RatOfInt(1), days_since_last_purchase |-> << >>,
   rfm_recency_score |-> 1, rfm_frequency_score |-> 1,
   rfm_monetary_score |-> 1, customer_segment |-> "Inactive"]

\* the try block of calculateCustomerMetrics for an `orders` that is an
\* array, statement by statement
calculateCustomerMetrics(customer, orders, date) ==
  LET customerOrders ==
        SortByProcessedAt(SelectSeq(orders,
                                    LAMBDA o : o.customer_id = customer.id))
  IN IF Len(customerOrders) = 0 THEN getEmptyMetrics(customer.id, date)
     ELSE
       LET created ==
             [customer_id |-> customer.id, calculation_date |-> date,
              total_revenue |-> calculateTotalRevenue(customerOrders),
              total_orders |-> Len(customerOrders),
              average_order_value |-> RatOfInt(0),
              purchase_frequency |-> RatOfInt(0),
              customer_lifespan_days |-> 0,
              customer_lifetime_value |-> RatOfInt(0),
              churn_probability |-> RatOfInt(0),
              days_since_last_purchase |-> <<0>>,
              rfm_recency_score |-> 0, rfm_frequency_score |-> 0,
              rfm_monetary_score |-> 0, customer_segment |-> ""]
           firstOrderDate == customerOrders[1].processed_at
           lastOrderDate == customerOrders[Len(customerOrders)].processed_at
           lifespan == differenceInDays(lastOrderDate, firstOrderDate)
           dated ==
             [created EXCEPT
                !.average_order_value =
                   Rat(created.total_revenue, created.total_orders),
                !.customer_lifespan_days = IF lifespan = 0 THEN 1 ELSE lifespan,
                !.days_since_last_purchase =
                   <<differenceInDays(date, lastOrderDate)>>]
           monthsActive == RatMax(Rat(dated.customer_lifespan_days, 30),
                                  RatOfInt(1))
           paced ==
             [dated EXCEPT !.purchase_frequency =
                RatDiv(RatOfInt(dated.total_orders), monthsActive)]
           simpleCLV == calculateSimpleCLV(paced)
           predictiveCLV == calculatePredictiveCLV(paced)
           valued ==
             [paced EXCEPT !.customer_lifetime_value =
                RatDiv(RatAdd(simpleCLV, predictiveCLV), RatOfInt(2))]
           churned ==
             [valued EXCEPT !.churn_probability =
                calculateChurnProbability(valued)]
           rfmScores == calculateRFMScores(customer, customerOrders, date)
       IN [churned EXCEPT
             !.rfm_recency_score = rfmScores.recency,
             !.rfm_frequency_score = rfmScores.frequency,
             !.rfm_monetary_score = rfmScores.monetary,
             !.customer_segment = determineSegment(rfmScores)]

\* the quantities of the line items of one order (none without line_items)
QuantitySold(order) ==
  IF order.line_items = << >> THEN 0
  ELSE SumSeq([k \in 1..Len(order.line_items[1]) |->
                 OrZero(order.line_items[1][k].quantity)])

\* the line items of the orders, in the order of the forEach loops
RECURSIVE LineItemsOf(_)
LineItemsOf(orders) ==
  IF orders = << >> THEN << >>
  ELSE (IF Head(orders).line_items = << >> THEN << >>
        ELSE Head(orders).line_items[1]) \o LineItemsOf(Tail(orders))

\* the keys of productSales in the order of their creation: the product ids of
\* the items, each once, an item without product id (falsy '') creating none
RECURSIVE CreatedKeys(_)
CreatedKeys(items) ==
  IF items = << >> THEN << >>
  ELSE LET before == CreatedKeys(SubSeq(items, 1, Len(items) - 1))
           id == items[Len(items)].source_product_id
       IN IF id = "" \/ \E k \in 1..Len(before) : before[k] = id
          THEN before ELSE Append(before, id)

\* the integers whose decimal form is a product id of the model
ArrayIndexes == 0..20
\* a property name that is the decimal form of an integer is an array index
IsArrayIndex(key) == \E n \in ArrayIndexes : ToString(n) = key
ArrayIndex(key) == CHOOSE n \in ArrayIndexes : ToString(n) = key

RECURSIVE AscendingIndexes(_)
\* array-index keys in ascending numeric order
AscendingIndexes(keys) ==
  IF keys = << >> THEN << >>
  ELSE LET k == CHOOSE a \in 1..Len(keys) :
                  \A b \in 1..Len(keys) :
                    ArrayIndex(keys[a]) <= ArrayIndex(keys[b])
       IN <<keys[k]>> \o AscendingIndexes(SubSeq(keys, 1, k - 1)
                                            \o SubSeq(keys, k + 1, Len(keys)))

\* the own keys of an object as Object.values enumerates them: array indexes
\* in ascending numeric order, then the other names in order of creation
OwnPropertyKeys(created) ==
  AscendingIndexes(SelectSeq(created, IsArrayIndex))
    \o SelectSeq(created, LAMBDA key : ~IsArrayIndex(key))

\* productSales[productId] after the loops
ProductSale(items, productId) ==
  LET own == SelectSeq(items, LAMBDA it : it.source_product_id = productId)
  IN [product_id |-> productId,
      quantity |-> SumSeq([k \in 1..Len(own) |-> OrZero(own[k].quantity)]),
      revenue |-> SumSeq([k \in 1..Len(own) |->
                            OrZero(own[k].price) * OrZero(own[k].quantity)])]

RECURSIVE SortByRevenueDesc(_)
\* Array.prototype.sort((a, b) => b.revenue - a.revenue), a stable sort
SortByRevenueDesc(sales) ==
  IF sales = << >> THEN << >>
  ELSE LET k == CHOOSE a \in 1..Len(sales) :
                  /\ \A b \in 1..Len(sales) :
                       sales[b].revenue <= sales[a].revenue
                  /\ \A b \in 1..(a - 1) : sales[b].revenue # sales[a].revenue
       IN <<sales[k]>> \o SortByRevenueDesc(SubSeq(sales, 1, k - 1)
                                              \o SubSeq(sales, k + 1,
                                                        Len(sales)))

\* Object.values(productSales).sort(...).slice(0, 10)
TopSellingProducts(dayOrders) ==
  LET items == LineItemsOf(dayOrders)
      keys == OwnPropertyKeys(CreatedKeys(items))
      sorted == SortByRevenueDesc([k \in 1..Len(keys) |->
                                     ProductSale(items, keys[k])])
  IN SubSeq(sorted, 1, IF Len(sorted) < 10 THEN Len(sorted) ELSE 10)

\* a daily aggregate over the orders processed at the very instant `date`
calculateDailyMetricsOfInstant(orders, date) ==
  LET dayOrders == SelectSeq(orders, LAMBDA o : o.processed_at = date)
      totalRevenue == SumSeq([k \in 1..Len(dayOrders) |->
                                OrZero(dayOrders[k].total_price)])
  IN [metric_date |-> date, source_type |-> "",
      total_revenue |-> totalRevenue,
      total_orders |-> Len(dayOrders),
      average_order_value |->
        IF Len(dayOrders) > 0 THEN Rat(totalRevenue, Len(dayOrders))
        ELSE RatOfInt(0),
      total_products_sold |->
        SumSeq([k \in 1..Len(dayOrders) |-> QuantitySold(dayOrders[k])]),
      top_selling_products |-> TopSellingProducts(dayOrders)]

\* CLVCalculator.calculateDailyMetrics (the `products` argument is not read):
\* the key, the totals, the average, the products sold and the top selling
\* products; two times have the same toDateString() when they are of the same
\* day
calculateDailyMetrics(orders, date) ==
  LET dayOrders ==
        SelectSeq(orders, LAMBDA o : DateOf(o.processed_at) = DateOf(date))
      totalRevenue == SumSeq([k \in 1..Len(dayOrders) |->
                                OrZero(dayOrders[k].total_price)])
  IN [metric_date |-> date, source_type |-> "",
      total_revenue |-> totalRevenue,
      total_orders |-> Len(dayOrders),
      average_order_value |->
        IF Len(dayOrders) > 0 THEN Rat(totalRevenue, Len(dayOrders))
        ELSE RatOfInt(0),
      total_products_sold |->
        SumSeq([k \in 1..Len(dayOrders) |-> QuantitySold(dayOrders[k])]),
      top_selling_products |-> TopSellingProducts(dayOrders)]

\* INSERT INTO customer_metrics ... ON CONFLICT (customer_id, calculation_date)
\* DO UPDATE (calculation_date is a DATE column)
upsertCustomerMetrics(table, m) ==
  LET row == [m EXCEPT !.calculation_date = DateOf(m.calculation_date)]
      hits == {k \in 1..Len(table) :
                 table[k].customer_id = row.customer_id
                   /\ table[k].calculation_date = row.calculation_date}
  IN IF hits = {} THEN Append(table, row)
     ELSE [k \in 1..Len(table) |-> IF k \in hits THEN row ELSE table[k]]

\* an INSERT INTO daily_metrics without the ON CONFLICT clause
insertDailyMetrics(table, m) ==
  Append(table, [m EXCEPT !.metric_date = DateOf(m.metric_date)])

\* INSERT INTO daily_metrics ... ON CONFLICT (metric_date, source_type)
\* DO UPDATE (metric_date is a DATE column)
upsertDailyMetrics(table, m) ==
  LET row == [m EXCEPT !.metric_date = DateOf(m.metric_date)]
      hits == {k \in 1..Len(table) :
                 table[k].metric_date = row.metric_date
                   /\ table[k].source_type = row.source_type}
  IN IF hits = {} THEN Append(table, row)
     ELSE [k \in 1..Len(table) |-> IF k \in hits THEN row ELSE table[k]]

\* the first row from k on that has orders (rows without orders are passed
\* over by `if (customer.orders && customer.orders.length > 0)`)
NextWithOrders(rs, k) ==
  IF \E j \in k..Len(rs) : rs[j].orders # << >>
  THEN Min({j \in k..Len(rs) : rs[j].orders # << >>})
  ELSE Len(rs) + 1

\* calculateMetrics: the customersQuery
CustomersQuery ==
  /\ pc = "customersQuery"
  /\ \/ /\ rows' = CustomersWithOrders(db, sourceType)
        /\ i' = NextWithOrders(rows', 1)
        /\ pc' = IF i' <= Len(rows') THEN "customerMetrics" ELSE "dailyMetrics"
        /\ calls' = Append(calls, Call("customersQuery", "", TRUE))
        /\ UNCHANGED <<faults, error, failedAt>>
     \/ /\ MayFail(FALSE)
        /\ calls' = Append(calls, Call("customersQuery", "", FALSE))
        /\ Throw(MsgOf("customersQuery"), "ComputingMetrics")
        /\ UNCHANGED <<rows, i>>
  /\ UNCHANGED <<runVars, db, now, etlLog, since, extractedData,
                 transformedData, loadResults, calculationDate>>
  /\ UNCHANGED <<calc, sourceUpdate>>

\* calculateMetrics: one iteration of the loop over customersWithOrders
UpsertCustomerMetrics ==
  /\ pc = "customerMetrics"
  /\ LET customer == rows[i].customer
         metrics == calculateCustomerMetrics(customer, rows[i].orders,
                                             calculationDate)
     IN \/ /\ db' = [db EXCEPT !.customer_metrics =
                       upsertCustomerMetrics(@, metrics)]
           /\ calls' = Append(calls, Call("upsertCustomerMetrics",
                                          customer.source_id, TRUE))
           /\ i' = NextWithOrders(rows, i + 1)
           /\ pc' = IF i' <= Len(rows) THEN "customerMetrics" ELSE "dailyMetrics"
           /\ UNCHANGED <<faults, error, failedAt>>
        \/ /\ MayFail(FALSE)
           /\ calls' = Append(calls, Call("upsertCustomerMetrics",
                                          customer.source_id, FALSE))
           /\ Throw(MsgOf("upsertCustomerMetrics"), "ComputingMetrics")
           /\ UNCHANGED <<db, i>>
  /\ UNCHANGED <<runVars, now, etlLog, since, extractedData, transformedData,
                 loadResults, rows, calculationDate>>
  /\ UNCHANGED <<calc, sourceUpdate>>

\* calculateMetrics: the ordersQuery, calculateDailyMetrics and
\* upsertDailyMetrics
DailyMetrics ==
  /\ pc = "dailyMetrics"
  /\ LET dailyOrders == DailyOrders(db, sourceType, calculationDate)
         dailyMetrics == [calculateDailyMetrics(dailyOrders, calculationDate)
                            EXCEPT !.source_type = sourceType]
     IN \/ /\ db' = [db EXCEPT !.daily_metrics =
                       upsertDailyMetrics(@, dailyMetrics)]
           /\ calls' = calls \o <<Call("ordersQuery", "", TRUE),
                                  Call("upsertDailyMetrics", "", TRUE)>>
           /\ pc' = "logSuccess"
           /\ UNCHANGED <<faults, error, failedAt>>
        \/ /\ MayFail(FALSE)
           /\ calls' = Append(calls, Call("ordersQuery", "", FALSE))
           /\ Throw(MsgOf("ordersQuery"), "ComputingMetrics")
           /\ UNCHANGED db
        \/ /\ MayFail(FALSE)
           /\ calls' = calls \o <<Call("ordersQuery", "", TRUE),
                                  Call("upsertDailyMetrics", "", FALSE)>>
           /\ Throw(MsgOf("upsertDailyMetrics"), "ComputingMetrics")
           /\ UNCHANGED db
  /\ UNCHANGED <<runVars, now, etlLog, since, extractedData, loadVars>>
  /\ UNCHANGED <<calc, sourceUpdate>>

\* a logETLRun that overwrites the row written last
logETLRunOverLast(logs, logEntry) ==
  IF logs = << >> THEN <<logEntry>>
  ELSE [logs EXCEPT ![Len(logs)] = logEntry]

\* PostgresLoader.logETLRun: INSERT INTO etl_logs
logETLRun(logs, logEntry) == Append(logs, logEntry)

\* return { success, ...etlLog }
Result(success, log) == <<[success |-> success, log |-> log]>>

\* a run() that goes on to the next source without keeping the result
ReturnToRunDropping(result) ==
  /\ results' = results
  /\ cur' = cur + 1
  /\ pc' = "run"

\* runForSource returns to run(), which stores the result and goes on
ReturnToRun(result) ==
  /\ results' = [results EXCEPT ![sourceType] = result]
  /\ cur' = cur + 1
  /\ pc' = "run"

\* etlLog as the end of the try block stamps it
SuccessLog(log, completedAt, loadResult) ==
  [log EXCEPT !.status = "success",
              !.completed_at = completedAt,
              !.duration_seconds = DurationSeconds(log.started_at, completedAt),
              !.metadata = <<loadResult>>]

\* a catch block that does not keep the error's message
FailedLogWithoutMessage(log, completedAt, msg) ==
  [log EXCEPT !.status = "failed",
              !.completed_at = completedAt,
              !.duration_seconds = DurationSeconds(log.started_at, completedAt)]

\* etlLog as the catch block stamps it
FailedLog(log, completedAt, msg) ==
  [log EXCEPT !.status = "failed",
              !.error_message = msg,
              !.completed_at = completedAt,
              !.duration_seconds = DurationSeconds(log.started_at, completedAt)]

\* the end of the try block: mark the run successful and log it; a logETLRun
\* that throws lands in the catch block
LogSuccess ==
  /\ pc = "logSuccess"
  /\ now' = now + 1
  /\ etlLog' = SuccessLog(etlLog, now', loadResults)
  /\ \/ /\ db' = [db EXCEPT !.etl_logs = logETLRun(@, etlLog')]
        /\ calls' = Append(calls, Call("logETLRun", "success", TRUE))
        /\ ReturnToRun(Result(TRUE, etlLog'))
        /\ UNCHANGED <<faults, error, failedAt>>
     \/ /\ MayFail(FALSE)
        /\ calls' = Append(calls, Call("logETLRun", "success", FALSE))
        /\ Throw(MsgOf("logETLRun"), "Logging")
        /\ UNCHANGED <<db, results, cur>>
  /\ UNCHANGED <<enabled, connectors, runs, outcome, started, since,
                 extractedData, loadVars>>
  /\ UNCHANGED <<calc, sourceUpdate>>

\* the catch block of runForSource: mark the run failed and log it; a
\* logETLRun that throws here leaves runForSource
Catch ==
  /\ pc = "catch"
  /\ now' = now + 1
  /\ etlLog' = FailedLog(etlLog, now', error)
  /\ \/ /\ db' = [db EXCEPT !.etl_logs = logETLRun(@, etlLog')]
        /\ calls' = Append(calls, Call("logETLRun", "failed", TRUE))
        /\ ReturnToRun(Result(FALSE, etlLog'))
        /\ UNCHANGED <<faults, error>>
     \/ /\ MayFail(FALSE)
        /\ calls' = Append(calls, Call("logETLRun", "failed", FALSE))
        /\ error' = MsgOf("logETLRun")
        /\ pc' = "runCatch"
        /\ UNCHANGED <<db, results, cur>>
  /\ UNCHANGED <<enabled, connectors, runs, outcome, started, failedAt, since,
                 extractedData, loadVars>>
  /\ UNCHANGED <<calc, sourceUpdate>>

Next ==
  \/ StartRun
  \/ SkipSource
  \/ BeginRunForSource
  \/ ReturnResults
  \/ RunCatch
  \/ TestConnection
  \/ GetLastETLRun
  \/ GetCustomers
  \/ GetProducts
  \/ GetOrders
  \/ TransformData
  \/ UpsertCustomer
  \/ UpsertProduct
  \/ LoadOrder
  \/ UpdateCustomerPurchaseDates
  \/ CustomersQuery
  \/ UpsertCustomerMetrics
  \/ DailyMetrics
  \/ LogSuccess
  \/ Catch

Spec == Init /\ [][Next]_vars

\* every awaited call returns or fails, and the synchronous code between two
\* awaits runs on: a run() in progress takes its next step. StartRun is the
\* scheduler's and is not required to happen.
CallReturns ==
  \/ SkipSource
  \/ BeginRunForSource
  \/ ReturnResults
  \/ RunCatch
  \/ TestConnection
  \/ GetLastETLRun
  \/ GetCustomers
  \/ GetProducts
  \/ GetOrders
  \/ TransformData
  \/ UpsertCustomer
  \/ UpsertProduct
  \/ LoadOrder
  \/ UpdateCustomerPurchaseDates
  \/ CustomersQuery
  \/ LogSuccess
  \/ Catch

\* the same for the two upserts of calculateMetrics, UpsertCustomerMetrics and
\* DailyMetrics. Each is enabled exactly when pc is at it (its success branch
\* has no further guard and appends to calls), and only they leave these
\* pcs, so their weak fairness is: pc is not at them forever without a step.
MetricsPcs == {"customerMetrics", "dailyMetrics"}
MetricsUpsertReturns ==
  []<>(pc \notin MetricsPcs) \/ []<><<pc \in MetricsPcs>>_vars

FairSpec ==
  Init /\ [][Next]_vars /\ WF_vars(CallReturns) /\ MetricsUpsertReturns

\* ------------------------------------------------ the source during a run
\* the platform is live while the pipeline runs: a record of the entity type
\* `entity` (named by its fetch) is created or updated at the source of the
\* run in progress after the run fetched that type; its update time is the
\* time the clock shows, and the connector of a later run returns it only if
\* that time is not before the `since` it is given (updated_at_min); one
\* change is followed, made while another run() is still to come
UpdateAtSource ==
  /\ sourceUpdate = NoUpdate
  /\ runs < MaxRuns
  /\ pc \notin {"idle", "run", "runCatch", "catch"}
  /\ \E entity \in {"getCustomers", "getProducts", "getOrders"} :
       /\ \E k \in 1..Len(calls) : calls[k].op = entity /\ calls[k].ok
       /\ sourceUpdate' = [source |-> sourceType, at |-> now,
                           during |-> etlLog.started_at]
  /\ UNCHANGED <<enabled, connectors, db, now, runs, faults, pc, cur, results,
                 outcome, etlLog, since, extractedData, transformedData,
                 loadResults, i, rows, calculationDate, error, calls, started,
                 failedAt, calc>>

LiveNext == Next \/ UpdateAtSource

\* the pipeline with a source that changes while it runs
LiveSpec == Init /\ [][LiveNext]_vars

\* ------------------------------------------- CLVCalculator, called directly
\* the methods of CLVCalculator are pure: a call reads its arguments only, so
\* they are exercised on their own, one call in a behaviour, on a pipeline
\* that never runs
pipelineVars ==
  <<enabled, connectors, db, now, runs, faults, pc, cur, results, outcome,
    etlLog, since, extractedData, transformedData, loadResults, i, rows,
    calculationDate, error, calls, started, failedAt, sourceUpdate>>

\* calculation dates: midnight and noon of one day
CalcDates == {2000, 2002}
\* ages of an order in days, on both sides of every breakpoint
CalcDaysAgo ==
  {-1, 0, 29, 30, 31, 59, 60, 61, 89, 90, 91, 179, 180, 181, 364, 365}
CalcTimes == {2000 - 4 * d : d \in CalcDaysAgo}
\* order counts on both sides of the frequency thresholds are built from these
CalcCounts == {1, 2, 5, 10, 20}
\* an order total: missing, or a number
CalcTotals == {<< >>, <<25>>, <<100>>, <<250>>}
CalcCustomer == [id |-> 1]

\* n orders of the customer, the first one processed at `first` and the others
\* at `rest` (in any order of the two times), each of total `price`, after
\* them an order of another customer when `foreign`
CalcOrders(n, price, first, rest, foreign) ==
  [k \in 1..n |->
     [id |-> k, customer_id |-> CalcCustomer.id, total_price |-> price,
      processed_at |-> IF k = 1 THEN first ELSE rest]]
    \o (IF foreign
        THEN <<[id |-> n + 1, customer_id |-> CalcCustomer.id + 1,
                total_price |-> <<5000>>, processed_at |-> 2000]>>
        ELSE << >>)

\* `orders` is << >> for null and <<list>> for an array: orders.filter of a
\* null is a TypeError, which the catch block logs and throws again
calculateCustomerMetricsThrows(orders) == orders = << >>

CalcInit == Init /\ enabled = {}

\* calculator.calculateCustomerMetrics(customer, orders, calculationDate)
CalculateCustomerMetrics ==
  /\ calc = NoCall
  /\ \E date \in CalcDates :
       \E orders \in {<< >>, << << >> >>}
                       \cup {<<CalcOrders(n, price, first, rest, foreign)>> :
                               n \in CalcCounts, price \in CalcTotals,
                               first \in CalcTimes, rest \in CalcTimes,
                               foreign \in BOOLEAN} :
         calc' = [op |-> "calculateCustomerMetrics",
                  customer |-> CalcCustomer, orders |-> orders, date |-> date,
                  threw |-> calculateCustomerMetricsThrows(orders),
                  result |->
                    IF calculateCustomerMetricsThrows(orders) THEN << >>
                    ELSE <<calculateCustomerMetrics(CalcCustomer, orders[1],
                                                    date)>>]
  /\ UNCHANGED pipelineVars

\* calculator.calculateChurnProbability({ days_since_last_purchase })
CalculateChurnProbability ==
  /\ calc = NoCall
  /\ \E days \in {<< >>} \cup {<<d>> : d \in -3..400} :
       calc' = [op |-> "calculateChurnProbability",
                metrics |-> [days_since_last_purchase |-> days],
                result |-> calculateChurnProbability(
                             [days_since_last_purchase |-> days])]
  /\ UNCHANGED pipelineVars

\* calculator.calculateRFMScores(customer, orders, calculationDate) with the
\* orders as the caller has them
CalculateRFMScores ==
  /\ calc = NoCall
  /\ \E date \in CalcDates, n \in CalcCounts, price \in CalcTotals,
        first \in CalcTimes, rest \in CalcTimes :
       LET orders == CalcOrders(n, price, first, rest, FALSE) IN
         calc' = [op |-> "calculateRFMScores", customer |-> CalcCustomer,
                  orders |-> orders, date |-> date,
                  result |-> calculateRFMScores(CalcCustomer, orders, date)]
  /\ UNCHANGED pipelineVars

\* calculator.determineSegment(rfmScores)
DetermineSegment ==
  /\ calc = NoCall
  /\ \E recency \in 1..5, frequency \in 1..5, monetary \in 1..5 :
       LET rfmScores == [recency |-> recency, frequency |-> frequency,
                         monetary |-> monetary,
                         combinedScore |-> recency + frequency + monetary] IN
         calc' = [op |-> "determineSegment", rfmScores |-> rfmScores,
                  result |-> determineSegment(rfmScores)]
  /\ UNCHANGED pipelineVars

\* the orders of a day's aggregate: processed the day before, on the day (at
\* midnight, late) or the day after, with or without a total and line items
DailyTimes == {1999, 2000, 2003, 2004}
DailyTotals == {<< >>, <<100>>, <<125>>}
DailyItem(productId, quantity, price) ==
  [source_product_id |-> productId, quantity |-> <<quantity>>,
   price |-> <<price>>]
\* more products than the list of top selling products holds, the one of the
\* smallest revenue not the last
ElevenProducts ==
  [k \in 1..11 |->
     DailyItem("sku" \o ToString(k), 1, IF k = 3 THEN 1 ELSE 10 + k)]
DailyLineItems ==
  {<< >>,
   <<<<[source_product_id |-> "p1", quantity |-> <<2>>, price |-> <<50>>]>>>>,
   <<<<[source_product_id |-> "p1", quantity |-> << >>, price |-> <<50>>],
       [source_product_id |-> "p7", quantity |-> <<3>>, price |-> <<30>>]>>>>,
   <<<<DailyItem("2", 1, 150), DailyItem("1", 2, 75)>>>>,
   <<<<DailyItem("b", 1, 50), DailyItem("", 2, 50), DailyItem("a", 1, 50)>>>>,
   <<ElevenProducts>>}
DailyOrder ==
  [id : {1}, customer_id : {1}, total_price : DailyTotals,
   processed_at : DailyTimes, line_items : DailyLineItems]
MaxDailyOrders == 2
DailyOrderLists ==
  UNION {[1..n -> DailyOrder] : n \in 0..MaxDailyOrders}

\* calculator.calculateDailyMetrics(orders, products, calculationDate)
CalculateDailyMetrics ==
  /\ calc = NoCall
  /\ \E date \in CalcDates, orders \in DailyOrderLists :
       calc' = [op |-> "calculateDailyMetrics", orders |-> orders,
                date |-> date,
                result |-> calculateDailyMetrics(orders, date)]
  /\ UNCHANGED pipelineVars

CalcNext ==
  \/ CalculateCustomerMetrics
  \/ CalculateChurnProbability
  \/ CalculateRFMScores
  \/ DetermineSegment
  \/ CalculateDailyMetrics

CalcSpec == CalcInit /\ [][CalcNext]_vars

\* ---------------------------------------------------------------- properties
\* the source of the current (or last) runForSource of this run()
RunSource == etlLog.source_type

\* the calls of the current runForSource whose operation is in `ops`, in order
Ops(ops) == SelectSeq(calls, LAMBDA c : c.op \in ops)
Succeeded(s) == SelectSeq(s, LAMBDA c : c.ok)
Rejected(s) == SelectSeq(s, LAMBDA c : ~c.ok)
KeysOf(s) == [k \in 1..Len(s) |-> s[k].key]

FetchOps == {"getCustomers", "getProducts", "getOrders"}
FetchOrder == <<"getCustomers", "getProducts", "getOrders">>
EntityWriteOps ==
  {"upsertCustomer", "upsertProduct", "upsertOrder", "insertOrderItem"}
StoreWriteOps ==
  EntityWriteOps \cup {"updatePurchaseDates", "upsertCustomerMetrics",
                       "upsertDailyMetrics", "logETLRun"}

LastCall == calls[Len(calls)]
\* runForSource has returned or thrown
Finished == calls # << >> /\ pc \in {"run", "idle", "runCatch"}
\* the run wrote its log with `status`, and the write succeeded
Logged(status) ==
  calls # << >> /\ LastCall = Call("logETLRun", status, TRUE)
LastLog == db.etl_logs[Len(db.etl_logs)]

\* all three fetches returned
Extracted ==
  Len(Ops(FetchOps)) = Len(FetchOrder) /\ \A k \in 1..Len(Ops(FetchOps)) :
    Ops(FetchOps)[k].ok
\* loadData returned
LoadingDone == \E k \in 1..Len(calls) : calls[k].op = "updatePurchaseDates"
\* entities the store accepted
Persisted == Len(Succeeded(Ops(EntityWriteOps)))

\* some fetched customer, product, order or line item is null
Unreadable(batch) == \E k \in 1..Len(batch) : batch[k].isNull
SomeRecordUnreadable(data) ==
  \/ Unreadable(data.customers)
  \/ Unreadable(data.products)
  \/ Unreadable(data.orders)
  \/ \E k \in 1..Len(data.orders) : Unreadable(data.orders[k].line_items)

\* C1 (as stated): when one enabled source's run fails, run() still returns,
\* every enabled source was run, and the mapping holds a result for every
\* enabled source, a successful one for each source that did not fail.
C1_FailureIsolation ==
  (outcome \in {"returned", "threw"} /\ \E s \in enabled : failedAt[s] # "")
    => /\ outcome = "returned"
       /\ started = enabled
       /\ \A s \in enabled :
            /\ results[s] # << >>
            /\ results[s][1].success = (failedAt[s] = "")

\* C2 (as stated): no error escapes runForSource, also when writing the run
\* log fails: run() never sees an exception of a source's run.
C2_RunForSourceNeverThrows == pc # "runCatch" /\ outcome # "threw"

\* completedAt of the latest run of source s that ended success and was
\* logged no later than `before`; NULL when there is none
Watermark(logs, s, before) ==
  LET times == {logs[k].completed_at : k \in {j \in 1..Len(logs) :
                  /\ logs[j].source_type = s
                  /\ logs[j].status = "success"
                  /\ logs[j].completed_at <= before}}
  IN IF times = {} THEN NULL ELSE Max(times)

LookupDone == Ops({"getLastETLRun"}) # << >>
LookupOk == Succeeded(Ops({"getLastETLRun"})) # << >>

C4_TransformAllOrNothing ==
  (Extracted /\ pc # "transform" /\ SomeRecordUnreadable(extractedData)) =>
    /\ failedAt[RunSource] = "Transforming"
    /\ transformedData = EmptyTransformed
    /\ loadResults = EmptyLoadResults
    /\ etlLog.records_transformed = 0 /\ etlLog.records_loaded = 0
    /\ \A k \in 1..Len(calls) :
         calls[k].op \in StoreWriteOps =>
           calls[k].op = "logETLRun" /\ calls[k].key = "failed"
    /\ Finished => etlLog.status = "failed"
    /\ Logged("failed") =>
         LastLog.status = "failed" /\ LastLog.source_type = RunSource

\* a run whose fetched orders hold a null line item has ended and is logged
C4_Witness ==
  /\ Logged("failed")
  /\ Extracted
  /\ ~Unreadable(extractedData.orders)
  /\ \E k \in 1..Len(extractedData.orders) :
       Unreadable(extractedData.orders[k].line_items)

ConnectionFailed ==
  calls # << >> /\ calls[1] = Call("testConnection", "", FALSE)

\* C5: when testConnection reports failure the run fails at once: no lookup,
\* fetch, normalization or upsert happens, and the log it writes has status
\* failed, all three counts 0 and a message that contains "connect".
C5_ConnectionFailure ==
  ConnectionFailed =>
    /\ failedAt[RunSource] = "Connecting"
    /\ pc \in {"catch", "run", "idle", "runCatch"}
    /\ \A k \in 2..Len(calls) : calls[k].op = "logETLRun"
    /\ extractedData = EmptyData /\ transformedData = EmptyTransformed
    /\ etlLog.records_extracted = 0
    /\ etlLog.records_transformed = 0
    /\ etlLog.records_loaded = 0
    /\ Logged("failed") =>
         /\ LastLog.source_type = RunSource
         /\ LastLog.status = "failed"
         /\ LastLog.records_extracted = 0
         /\ LastLog.records_transformed = 0
         /\ LastLog.records_loaded = 0
         /\ Contains(LastLog.error_message, "connect")

\* a run whose connection test failed has written its log
C5_Witness == ConnectionFailed /\ Logged("failed")

\* C6: customers, products and orders are fetched in that order, each at
\* most once and with the run's `since`; a fetch that fails is the last one,
\* the run fails in Extracting and loads nothing; a run that got past
\* extraction made all three fetches.
C6_FetchOrder ==
  LET fetches == Ops(FetchOps) IN
    /\ Len(fetches) <= Len(FetchOrder)
    /\ \A k \in 1..Len(fetches) :
         /\ fetches[k].op = FetchOrder[k]
         /\ fetches[k].since = since
         /\ k < Len(fetches) => fetches[k].ok
    /\ Rejected(fetches) # << >> =>
         /\ failedAt[RunSource] = "Extracting"
         /\ Ops(StoreWriteOps \ {"logETLRun"}) = << >>
         /\ transformedData = EmptyTransformed
         /\ Finished => etlLog.status = "failed"
    /\ (calls # << >>
          /\ \/ transformedData # EmptyTransformed
             \/ failedAt[RunSource] = "Transforming"
             \/ Ops(StoreWriteOps \ {"logETLRun"}) # << >>) => Extracted

\* the customers were fetched with a non-null `since`, the fetch of the
\* products failed, and the run has ended
C6_Witness ==
  /\ Finished
  /\ since # NULL
  /\ Len(Ops(FetchOps)) = 2
  /\ Ops(FetchOps)[1].ok /\ ~Ops(FetchOps)[2].ok

\* what one batch upsert has done so far: the entities attempted are a prefix
\* of the batch in input order, each attempted entity is in exactly one of
\* the two lists, and once the loop is over the whole batch was attempted
BatchOutcome(op, batch, result, loopPcs) ==
  LET attempts == Ops({op}) IN
    /\ Len(attempts) <= Len(batch)
    /\ \A k \in 1..Len(attempts) : attempts[k].key = batch[k].source_id
    /\ KeysOf(result.inserted) = KeysOf(Succeeded(attempts))
    /\ KeysOf(result.failed) = KeysOf(Rejected(attempts))
    /\ Len(result.inserted) + Len(result.failed) = Len(attempts)
    /\ pc \notin loopPcs => Len(attempts) = Len(batch)

\* C7: upsertCustomerBatch and upsertProductBatch attempt every entity in
\* input order, put each into exactly one of inserted and failed, and an
\* entity that fails neither aborts the batch nor fails the run.
C7_BatchPartialFailure ==
  calls # << >> =>
    /\ BatchOutcome("upsertCustomer", transformedData.customers,
                    loadResults.customers, {"upsertCustomers"})
    /\ BatchOutcome("upsertProduct", transformedData.products,
                    loadResults.products, {"upsertCustomers", "upsertProducts"})
    /\ failedAt[RunSource] # "Loading"
    /\ pc = "catch" =>
         error \notin {MsgOf("upsertCustomer"), MsgOf("upsertProduct")}

\* the first customer of a batch failed, the second was still upserted, and
\* the run ended successful
C7_Witness ==
  /\ Logged("success")
  /\ Len(Ops({"upsertCustomer"})) = 2
  /\ ~Ops({"upsertCustomer"})[1].ok /\ Ops({"upsertCustomer"})[2].ok

\* C8 (as stated): when loading is over, every entity handed to the store is
\* in the inserted or in the failed list of its type: customers, products,
\* orders and order items.
C8_EveryLoadFailureRecorded ==
  LoadingDone =>
    /\ Len(loadResults.customers.inserted) + Len(loadResults.customers.failed)
         = Len(transformedData.customers)
    /\ Len(loadResults.products.inserted) + Len(loadResults.products.failed)
         = Len(transformedData.products)
    /\ Len(loadResults.orders.inserted) + Len(loadResults.orders.failed)
         = Len(transformedData.orders)
    /\ Len(loadResults.orderItems.inserted) + Len(loadResults.orderItems.failed)
         = Len(transformedData.orderItems)

\* C9: the recordsLoaded of a run that ended success is the number of
\* customers, products, orders and order items the store accepted, each
\* counted once.
C9_RecordsLoaded ==
  Logged("success") =>
    /\ LastLog.status = "success" /\ LastLog.source_type = RunSource
    /\ LastLog.records_loaded = Persisted
    /\ results[RunSource] = Result(TRUE, LastLog)

\* a successful run in which an order item was stored and another write was
\* rejected
C9_Witness ==
  /\ Logged("success")
  /\ Succeeded(Ops({"insertOrderItem"})) # << >>
  /\ Rejected(Ops(EntityWriteOps)) # << >>

\* the message of the error that ended the run: a failed run's log call is
\* preceded by the call that threw, or by the last fetch when the transformer
\* threw
ErrorOfRun ==
  LET c == calls[Len(calls) - 1] IN
    IF c.ok THEN MsgTypeError
    ELSE IF c.op = "testConnection" THEN MsgFailedToConnect(RunSource)
    ELSE MsgOf(c.op)

\* C10: the log of a run that ended failed has status failed, the message of
\* the error that ended the run, and counters that reflect only the stages
\* that completed.
C10_FailedRunLog ==
  Logged("failed") =>
    /\ LastLog.source_type = RunSource
    /\ LastLog.status = "failed"
    /\ LastLog.error_message = ErrorOfRun
    /\ LastLog.records_extracted =
         (IF Extracted
          THEN Len(extractedData.customers) + Len(extractedData.products)
                 + Len(extractedData.orders)
          ELSE 0)
    /\ LastLog.records_transformed =
         (IF Extracted /\ ~SomeRecordUnreadable(extractedData)
          THEN Len(extractedData.customers) + Len(extractedData.products)
                 + Len(extractedData.orders)
          ELSE 0)
    /\ LastLog.records_loaded = (IF LoadingDone THEN Persisted ELSE 0)
    /\ results[RunSource] = Result(FALSE, LastLog)

\* a run that failed while computing metrics, after it had loaded records
C10_Witness ==
  /\ Logged("failed")
  /\ failedAt[RunSource] = "ComputingMetrics"
  /\ LastLog.records_loaded > 0

\* the rows of etl_logs written by the current runForSource: started_at is
\* the clock at its entry, and the clock advances with every log attempt
RowsOfRun ==
  {k \in 1..Len(db.etl_logs) :
     /\ db.etl_logs[k].source_type = RunSource
     /\ db.etl_logs[k].started_at = etlLog.started_at}

\* C11 (as stated): a runForSource that has ended has persisted exactly one
\* run log row, with status success or failed.
C11_ExactlyOneLogRow ==
  Finished =>
    /\ Cardinality(RowsOfRun) = 1
    /\ \A k \in RowsOfRun : db.etl_logs[k].status \in {"success", "failed"}

\* what holds of etl_logs in every state: no row is running, no two rows
\* belong to one run, and the current run has a row exactly when the log call
\* that ended it succeeded; the row is the log the run returned
LogRowsOfRuns ==
  /\ \A k \in 1..Len(db.etl_logs) :
       /\ db.etl_logs[k].status \in {"success", "failed"}
       /\ \A j \in 1..(k - 1) :
            db.etl_logs[j].started_at # db.etl_logs[k].started_at
  /\ calls # << >> =>
       /\ Cardinality(RowsOfRun) =
            (IF Logged("success") \/ Logged("failed") THEN 1 ELSE 0)
       /\ RowsOfRun # {} =>
            /\ RowsOfRun = {Len(db.etl_logs)}
            /\ LastLog = etlLog
            /\ pc \in {"run", "idle"}

\* no step changes or removes a row of etl_logs, and a step adds at most one
LogRowsKept ==
  /\ Len(db'.etl_logs) \in {Len(db.etl_logs), Len(db.etl_logs) + 1}
  /\ SubSeq(db'.etl_logs, 1, Len(db.etl_logs)) = db.etl_logs

\* C11 (amended): each runForSource persists at most one run log row, at its
\* end, and exactly one when the logETLRun call that ends it succeeds; the
\* row's status is success or failed, and no later step changes the row or
\* adds a second row for the run.
C11_OneLogRowKept == []LogRowsOfRuns /\ [][LogRowsKept]_vars

\* a run whose success log was rejected wrote its failed log as the second
\* row of the table
C11_Witness ==
  /\ Logged("failed")
  /\ Rejected(Ops({"logETLRun"})) # << >>
  /\ Len(db.etl_logs) = 2

\* a runForSource is in progress
InRunForSource == pc \notin {"idle", "run", "runCatch"}
IndexOf(s) == CHOOSE k \in 1..Len(Sources) : Sources[k] = s

\* C12: within one run() at most one source's run is in progress: when a
\* runForSource is in progress every other source started by this run() has
\* returned success or failed and its log is written, the calls being made
\* are those of the one source run() is at, and no later source has started.
C12_OneSourceAtATime ==
  /\ started \subseteq enabled
  /\ InRunForSource =>
       /\ RunSource = sourceType
       /\ RunSource \in started
       /\ results[RunSource] = << >>
       /\ \A s \in enabled :
            IndexOf(s) < cur <=> s \in started \ {RunSource}
       /\ \A s \in started \ {RunSource} :
            /\ results[s] # << >>
            /\ results[s][1].log.status \in {"success", "failed"}
            /\ results[s][1].success = (results[s][1].log.status = "success")
            /\ \E k \in 1..Len(db.etl_logs) : db.etl_logs[k] = results[s][1].log

\* the second source is being fetched after the first source's run failed
C12_Witness ==
  /\ pc = "getProducts"
  /\ RunSource = "woocommerce"
  /\ results["shopify"] # << >>
  /\ ~results["shopify"][1].success

\* C13 (as stated): when a run has ended success, every customer of the
\* run's source in the store has a customer_metrics row of the calculation
\* date, customers without orders included, and the store holds exactly one
\* daily_metrics row of that date tagged with the source.
C13_MetricsForEveryCustomer ==
  Logged("success") =>
    /\ \A k \in 1..Len(db.customers) :
         db.customers[k].source_type = RunSource =>
           \E j \in 1..Len(db.customer_metrics) :
             /\ db.customer_metrics[j].customer_id = db.customers[k].id
             /\ db.customer_metrics[j].calculation_date = DateOf(calculationDate)
    /\ Cardinality({j \in 1..Len(db.daily_metrics) :
                      /\ db.daily_metrics[j].source_type = RunSource
                      /\ db.daily_metrics[j].metric_date
                           = DateOf(calculationDate)}) = 1

\* the metrics upserts of the current run that the store accepted
MetricsUpserted(op) == Succeeded(Ops({op}))
\* what customersQuery gives for the customer with source id `key`
CustomerRowOf(key) ==
  LET all == CustomersWithOrders(db, RunSource) IN
    all[CHOOSE k \in 1..Len(all) : all[k].customer.source_id = key]

\* C14: customer_metrics holds at most one row per (customer_id,
\* calculation_date) and daily_metrics at most one per (metric_date,
\* source_type); after a run's upsert the row of the key holds the values
\* that run computed, whether or not an earlier run had written the key.
C14_OneMetricsRowPerKey ==
  /\ \A j, k \in 1..Len(db.customer_metrics) :
       (/\ db.customer_metrics[j].customer_id = db.customer_metrics[k].customer_id
        /\ db.customer_metrics[j].calculation_date
             = db.customer_metrics[k].calculation_date) => j = k
  /\ \A j, k \in 1..Len(db.daily_metrics) :
       (/\ db.daily_metrics[j].metric_date = db.daily_metrics[k].metric_date
        /\ db.daily_metrics[j].source_type = db.daily_metrics[k].source_type)
         => j = k
  /\ \A c \in 1..Len(MetricsUpserted("upsertCustomerMetrics")) :
       LET row == CustomerRowOf(MetricsUpserted("upsertCustomerMetrics")[c].key)
           computed == calculateCustomerMetrics(row.customer, row.orders,
                                                calculationDate)
       IN \E j \in 1..Len(db.customer_metrics) :
            db.customer_metrics[j] =
              [computed EXCEPT !.calculation_date = DateOf(calculationDate)]
  /\ MetricsUpserted("upsertDailyMetrics") # << >> =>
       LET computed ==
             calculateDailyMetrics(DailyOrders(db, RunSource, calculationDate),
                                   calculationDate)
       IN \E j \in 1..Len(db.daily_metrics) :
            db.daily_metrics[j] =
              [computed EXCEPT !.metric_date = DateOf(calculationDate),
                               !.source_type = RunSource]

\* a run upserted the daily metrics of a day for which an earlier successful
\* run of the same source, which had stored fewer orders, had written them
C14_Witness ==
  /\ MetricsUpserted("upsertDailyMetrics") # << >>
  /\ Len(db.daily_metrics) = 1
  /\ \E k \in 1..Len(db.etl_logs) :
       /\ db.etl_logs[k].source_type = RunSource
       /\ db.etl_logs[k].status = "success"
       /\ db.etl_logs[k].started_at < etlLog.started_at
       /\ DateOf(db.etl_logs[k].started_at) = DateOf(calculationDate)
       /\ Len(db.etl_logs[k].metadata[1].orders.inserted)
            < Len(loadResults.orders.inserted)

\* the sentinel "empty metrics": monetary and count fields 0, churn
\* probability 1, RFM scores 1, segment Inactive, no days since last purchase
IsEmptyMetrics(m) ==
  /\ m.total_revenue = 0
  /\ m.total_orders = 0
  /\ m.average_order_value = RatOfInt(0)
  /\ m.purchase_frequency = RatOfInt(0)
  /\ m.customer_lifespan_days = 0
  /\ m.customer_lifetime_value = RatOfInt(0)
  /\ m.churn_probability = RatOfInt(1)
  /\ m.days_since_last_purchase = << >>
  /\ m.rfm_recency_score = 1
  /\ m.rfm_frequency_score = 1
  /\ m.rfm_monetary_score = 1
  /\ m.customer_segment = "Inactive"

CustomerMetricsCalled == calc.op = "calculateCustomerMetrics"

\* C15: whenever `orders` is null or an empty list, calculateCustomerMetrics
\* raises no error and returns the empty-metrics sentinel
C15_EmptyMetricsOnNullOrEmpty ==
  CustomerMetricsCalled /\ calc.orders \in {<< >>, << << >> >>}
    => /\ ~calc.threw
       /\ calc.result # << >>
       /\ IsEmptyMetrics(calc.result[1])

\* the call returned metrics computed from at least one order
MetricsOfOrders ==
  CustomerMetricsCalled /\ ~calc.threw /\ calc.result[1].total_orders > 0

\* C16: for a non-empty order set the customer lifetime value returned is
\* (simpleCLV + predictiveCLV) / 2, the predictive value being computed with
\* retention = 1 - the churn probability the same result reports
C16_LifetimeValueUsesChurn ==
  MetricsOfOrders
    => LET m == calc.result[1] IN
         m.customer_lifetime_value =
           RatDiv(RatAdd(calculateSimpleCLV(m), calculatePredictiveCLV(m)),
                  RatOfInt(2))

\* the ordered rule list of the segmentation: the labels, and the condition of
\* the k-th rule on the scores s
SegmentLabels ==
  <<"Champions", "Loyal Customers", "Potential Loyalists", "New Customers",
    "At Risk", "Cannot Lose", "Hibernating", "Price Sensitive", "Regular">>
RuleMatches(k, s) ==
  CASE k = 1 -> s.recency >= 4 /\ s.frequency >= 4 /\ s.monetary >= 4
    [] k = 2 -> s.frequency >= 3 /\ s.monetary >= 3 /\ s.combinedScore >= 9
    [] k = 3 -> s.recency >= 3 /\ s.frequency >= 2 /\ s.combinedScore >= 7
    [] k = 4 -> s.recency >= 4 /\ s.frequency <= 2
    [] k = 5 -> s.recency <= 2 /\ s.frequency >= 3 /\ s.monetary >= 3
    [] k = 6 -> s.recency <= 2 /\ s.monetary >= 4
    [] k = 7 -> s.recency <= 2 /\ s.frequency <= 2 /\ s.monetary <= 2
    [] k = 8 -> s.monetary <= 2 /\ s.frequency >= 3
    [] OTHER -> TRUE
MatchingRules(s) == {k \in 1..Len(SegmentLabels) : RuleMatches(k, s)}
FirstMatch(s) ==
  SegmentLabels[CHOOSE k \in MatchingRules(s) :
                  \A j \in MatchingRules(s) : k <= j]

ChurnHundredths(days) ==
  IF days < 30 THEN 5
  ELSE IF 30 <= days /\ days < 60 THEN 15
  ELSE IF 60 <= days /\ days < 90 THEN 25
  ELSE IF 90 <= days /\ days < 180 THEN 45
  ELSE IF 180 <= days /\ days < 365 THEN 70
  ELSE 90

ChurnCalledWithDays ==
  /\ calc.op = "calculateChurnProbability"
  /\ calc.metrics.days_since_last_purchase # << >>

\* C18: calculateChurnProbability returns 0.05 below 30 days since the last
\* purchase (negative values included), 0.15 from 30, 0.25 from 60, 0.45 from
\* 90, 0.70 from 180 and 0.90 from 365 days on, and no more recent purchase
\* gets a higher probability
C18_ChurnStepFunction ==
  ChurnCalledWithDays
    => LET days == calc.metrics.days_since_last_purchase[1] IN
         /\ calc.result = Rat(ChurnHundredths(days), 100)
         /\ \A earlier \in -3..days :
              RatLe(calculateChurnProbability(
                      [days_since_last_purchase |-> <<earlier>>]),
                    calc.result)

\* a call exactly on a breakpoint, which belongs to the higher step
C18_Witness ==
  /\ ChurnCalledWithDays
  /\ calc.metrics.days_since_last_purchase[1] = 30
  /\ calc.result = Rat(15, 100)

\* the time of the most recent order of a non-empty list
MostRecent(orders) ==
  CHOOSE t \in {orders[k].processed_at : k \in 1..Len(orders)} :
    \A k \in 1..Len(orders) : orders[k].processed_at <= t

\* the three score tables of the claim
RecencyScore(days) ==
  IF days <= 30 THEN 5 ELSE IF days <= 60 THEN 4 ELSE IF days <= 90 THEN 3
  ELSE IF days <= 180 THEN 2 ELSE 1
FrequencyScore(count) ==
  IF count >= 20 THEN 5 ELSE IF count >= 10 THEN 4 ELSE IF count >= 5 THEN 3
  ELSE IF count >= 2 THEN 2 ELSE 1
MonetaryScore(revenue) ==
  IF revenue >= 5000 THEN 5 ELSE IF revenue >= 2000 THEN 4
  ELSE IF revenue >= 500 THEN 3 ELSE IF revenue >= 100 THEN 2 ELSE 1

\* C19: for every non-empty order list and date, the recency score follows
\* the days since the most recent order, the frequency score the order count
\* and the monetary score the total revenue, combinedScore is their sum; and
\* every score calculateCustomerMetrics reports is in 1..5 (their sum in 3..15)
C19_RFMScores ==
  /\ calc.op = "calculateRFMScores"
       => /\ calc.result.recency =
               RecencyScore(differenceInDays(calc.date,
                                             MostRecent(calc.orders)))
          /\ calc.result.frequency = FrequencyScore(Len(calc.orders))
          /\ calc.result.monetary =
               MonetaryScore(SumSeq([k \in 1..Len(calc.orders) |->
                                       OrZero(calc.orders[k].total_price)]))
          /\ calc.result.combinedScore =
               calc.result.recency + calc.result.frequency
                 + calc.result.monetary
  /\ CustomerMetricsCalled /\ ~calc.threw
       => LET m == calc.result[1] IN
            /\ m.rfm_recency_score \in 1..5
            /\ m.rfm_frequency_score \in 1..5
            /\ m.rfm_monetary_score \in 1..5
            /\ m.rfm_recency_score + m.rfm_frequency_score
                 + m.rfm_monetary_score \in 3..15

RECURSIVE SumOver(_, _)
\* the sum of value[k] over the indices k of the set S
SumOver(S, value) ==
  IF S = {} THEN 0
  ELSE LET k == CHOOSE j \in S : TRUE IN value[k] + SumOver(S \ {k}, value)

\* the orders of the call whose processed_at is of the calendar date of the
\* calculation date
CountedOrders ==
  {k \in 1..Len(calc.orders) :
     calc.orders[k].processed_at \div 4 = calc.date \div 4}

\* C20: calculateDailyMetrics counts an order exactly when the calendar date
\* of its processed_at is that of the calculation date: total_orders is the
\* number of these orders, total_revenue the sum of their totals (0 for a
\* missing total), total_products_sold the sum of their line-item quantities,
\* and average_order_value is 0 when there is none
C20_DailyMetricsOfTheDate ==
  calc.op = "calculateDailyMetrics"
    => /\ calc.result.total_orders = Cardinality(CountedOrders)
       /\ calc.result.total_revenue =
            SumOver(CountedOrders,
                    [k \in 1..Len(calc.orders) |->
                       IF calc.orders[k].total_price = << >> THEN 0
                       ELSE calc.orders[k].total_price[1]])
       /\ calc.result.total_products_sold =
            SumOver(CountedOrders,
                    [k \in 1..Len(calc.orders) |->
                       IF calc.orders[k].line_items = << >> THEN 0
                       ELSE LET items == calc.orders[k].line_items[1] IN
                              SumOver(1..Len(items),
                                      [j \in 1..Len(items) |->
                                         IF items[j].quantity = << >> THEN 0
                                         ELSE items[j].quantity[1]])])
       /\ (CountedOrders = {}
             => calc.result.average_order_value = RatOfInt(0))

\* an order of the day's evening is counted for a calculation date at
\* midnight, the order of the next day is not
C20_Witness ==
  /\ calc.op = "calculateDailyMetrics"
  /\ Len(calc.orders) = 2
  /\ CountedOrders = {1}
  /\ calc.orders[1].processed_at # calc.date
  /\ calc.orders[1].total_price = << >>
  /\ calc.result.total_revenue = 0
  /\ calc.result.total_products_sold = 3

\* the line items of the counted orders, in the order of the orders
RECURSIVE ItemsOfCounted(_)
ItemsOfCounted(k) ==
  IF k = 0 THEN << >>
  ELSE ItemsOfCounted(k - 1)
         \o (IF k \in CountedOrders /\ calc.orders[k].line_items # << >>
             THEN calc.orders[k].line_items[1] ELSE << >>)
DayItems == ItemsOfCounted(Len(calc.orders))
DayProducts ==
  {DayItems[k].source_product_id : k \in 1..Len(DayItems)} \ {""}
\* the revenue of a product: the sum of price * quantity of its items
RevenueOf(productId) ==
  SumOver({k \in 1..Len(DayItems) :
             DayItems[k].source_product_id = productId},
          [k \in 1..Len(DayItems) |->
             (IF DayItems[k].price = << >> THEN 0 ELSE DayItems[k].price[1])
               * (IF DayItems[k].quantity = << >> THEN 0
                  ELSE DayItems[k].quantity[1])])
\* the position of the first item of a product in the day's orders
FirstSeenAt(productId) ==
  CHOOSE k \in 1..Len(DayItems) :
    /\ DayItems[k].source_product_id = productId
    /\ \A j \in 1..(k - 1) : DayItems[j].source_product_id # productId

\* C21: top_selling_products of calculateDailyMetrics has at most 10 entries,
\* one per distinct product id of the day's line items, in descending order
\* of revenue (sum of price * quantity); products of equal revenue are in the
\* order in which they were first seen, and no product left out has a higher
\* revenue than a listed one
C21_TopSellingProducts ==
  calc.op = "calculateDailyMetrics"
    => LET top == calc.result.top_selling_products
           listed == {top[k].product_id : k \in 1..Len(top)}
       IN /\ Len(top) <= 10
          /\ Len(top) = IF Cardinality(DayProducts) < 10
                        THEN Cardinality(DayProducts) ELSE 10
          /\ Cardinality(listed) = Len(top)
          /\ listed \subseteq DayProducts
          /\ \A k \in 1..Len(top) :
               top[k].revenue = RevenueOf(top[k].product_id)
          /\ \A j, k \in 1..Len(top) :
               j < k => \/ top[j].revenue > top[k].revenue
                        \/ /\ top[j].revenue = top[k].revenue
                           /\ FirstSeenAt(top[j].product_id)
                                < FirstSeenAt(top[k].product_id)
          /\ \A out \in DayProducts \ listed : \A in \in listed :
               RevenueOf(out) <= RevenueOf(in)

\* the log row of the successful run during which the source record changed
UpdatedDuring ==
  {k \in 1..Len(db.etl_logs) :
     /\ db.etl_logs[k].source_type = sourceUpdate.source
     /\ db.etl_logs[k].started_at = sourceUpdate.during
     /\ db.etl_logs[k].status = "success"}
\* the current run is the next run of that source, and has its `since`
NextRunHasSince ==
  /\ sourceUpdate # NoUpdate
  /\ UpdatedDuring # {}
  /\ calls # << >>
  /\ LookupDone
  /\ RunSource = sourceUpdate.source
  /\ etlLog.started_at > sourceUpdate.during
  /\ \A k \in 1..Len(db.etl_logs) :
       db.etl_logs[k].source_type = RunSource
         => ~(/\ db.etl_logs[k].started_at > sourceUpdate.during
              /\ db.etl_logs[k].started_at < etlLog.started_at)

\* C22: a record created or updated at the source while a successful run is
\* in progress, after that run fetched its entity type and before the run's
\* completedAt, has an update time at or after the `since` of the next run of
\* the same source (so that run's fetch returns it)
C22_NoUpdateLost ==
  NextRunHasSince => sourceUpdate.at >= since

\* the stages of a run, numbered in their order (0: no run in progress,
\* 7: the stages are done and the run is being logged)
StageNames ==
  <<"Connecting", "DeterminingWatermark", "Extracting", "Transforming",
    "Loading", "ComputingMetrics">>
StageOfPc(p) ==
  CASE p = "connecting" -> 1
    [] p = "watermark" -> 2
    [] p \in {"getCustomers", "getProducts", "getOrders"} -> 3
    [] p = "transform" -> 4
    [] p \in {"upsertCustomers", "upsertProducts", "loadOrders",
              "purchaseDates"} -> 5
    [] p \in {"customersQuery", "customerMetrics", "dailyMetrics"} -> 6
    [] p \in {"logSuccess", "catch"} -> 7
    [] OTHER -> 0
StageOfCall(op) ==
  CASE op = "testConnection" -> 1
    [] op = "getLastETLRun" -> 2
    [] op \in FetchOps -> 3
    [] op \in EntityWriteOps \cup {"findCustomerId", "findProductId",
                                   "updatePurchaseDates"} -> 5
    [] op \in {"customersQuery", "upsertCustomerMetrics", "ordersQuery",
               "upsertDailyMetrics"} -> 6
    [] OTHER -> 7

\* the calls made so far are in the order of the stages, no failed call was
\* made again, and a success log is written only after every stage's calls
StagesInOrder ==
  /\ \A j, k \in 1..Len(calls) :
       j < k => /\ StageOfCall(calls[j].op) <= StageOfCall(calls[k].op)
                /\ ~calls[j].ok =>
                     ~(calls[k].op = calls[j].op /\ calls[k].key = calls[j].key)
  /\ StageOfPc(pc) \in 1..Len(StageNames)
       => \A k \in 1..Len(calls) : StageOfCall(calls[k].op) <= StageOfPc(pc)
  /\ calls # << >> /\ LastCall.op = "logETLRun" /\ LastCall.key = "success"
       => /\ Succeeded(Ops({"testConnection"})) # << >>
          /\ LookupDone
          /\ Extracted
          /\ LoadingDone
          /\ Succeeded(Ops({"customersQuery"})) # << >>
          /\ Rejected(Ops({"upsertCustomerMetrics"})) = << >>
          /\ Len(Ops({"upsertCustomerMetrics"}))
               = Len(SelectSeq(rows, LAMBDA r : r.orders # << >>))
          /\ Len(Succeeded(Ops({"upsertDailyMetrics"}))) = 1

\* a step keeps the stage, enters the next one, or leaves the stages for the
\* catch block; a run starts in the first stage and is logged after the last
StageStep ==
  LET from == StageOfPc(pc)
      to == StageOfPc(pc')
  IN /\ from = 0 => to \in {0, 1}
     /\ from \in 1..Len(StageNames)
          => \/ to \in {from, from + 1}
             \/ pc' = "catch"
     /\ pc' = "logSuccess" => from = Len(StageNames)
     /\ from = 7 => to \in {0, 7} /\ pc' # "logSuccess"

\* C23: every run goes through Connecting, DeterminingWatermark, Extracting,
\* Transforming, Loading and ComputingMetrics in this order, without skipping
\* or re-entering a stage and without making a failed call again; a log with
\* status success is written only after every stage completed, the customer
\* metrics and daily metrics upserts of the run included
C23_StagesInOrder == []StagesInOrder /\ [][StageStep]_vars

\* a successful run that upserted customer metrics after a load in which the
\* store rejected an entity
C23_Witness ==
  /\ Logged("success")
  /\ Succeeded(Ops({"upsertCustomerMetrics"})) # << >>
  /\ Rejected(Ops(EntityWriteOps)) # << >>

\* the transformed order of the run with source id `key`
OrderOfKey(key) ==
  CHOOSE k \in 1..Len(transformedData.orders) :
    transformedData.orders[k].source_id = key
\* the calls after call k up to the next upsertOrder or lookup of a customer
RECURSIVE CallsOfOrder(_)
CallsOfOrder(k) ==
  IF k >= Len(calls)
       \/ calls[k + 1].op \notin {"findProductId", "insertOrderItem"}
  THEN << >>
  ELSE <<calls[k + 1]>> \o CallsOfOrder(k + 1)
\* the id of the stored customer of the run's source with this e-mail address
CustomerIdByEmail(email) ==
  LET hits == {k \in 1..Len(db.customers) :
                 /\ db.customers[k].email = email
                 /\ db.customers[k].source_type = RunSource}
  IN IF hits = {} THEN NULL
     ELSE db.customers[CHOOSE k \in hits : \A j \in hits : k <= j].id

\* C24: in Loading every customer and product upsert precedes every call made
\* for an order; for each order the customer lookup by e-mail, made only when
\* the order has an e-mail, directly precedes the order's upsert, which
\* precedes the insertion of the order's items; the order is stored with the
\* customer id the lookup returned (null when there is none or no e-mail);
\* no item is inserted for an order whose upsert failed
C24_LoadingOrder ==
  \A k \in 1..Len(calls) :
    /\ calls[k].op \in {"upsertCustomer", "upsertProduct"}
         => \A j \in 1..k :
              calls[j].op \notin {"findCustomerId", "upsertOrder",
                                  "findProductId", "insertOrderItem"}
    /\ calls[k].op = "findCustomerId"
         => /\ k < Len(calls)
            /\ calls[k + 1].op = "upsertOrder"
            /\ transformedData.orders[OrderOfKey(calls[k + 1].key)].email
                 = calls[k].key
    /\ calls[k].op = "insertOrderItem"
         => \E j \in 1..(k - 1) :
              /\ calls[j] = Call("upsertOrder", calls[j].key, TRUE)
              /\ \A m \in (j + 1)..k :
                   calls[m].op \in {"findProductId", "insertOrderItem"}
    /\ calls[k].op = "upsertOrder"
         => LET order == transformedData.orders[OrderOfKey(calls[k].key)]
                lookedUp == k > 1 /\ calls[k - 1].op = "findCustomerId"
                stored == {j \in 1..Len(db.orders) :
                             /\ db.orders[j].source_id = calls[k].key
                             /\ db.orders[j].source_type = RunSource}
            IN /\ lookedUp <=> order.email # NoEmail
               /\ Len(SelectSeq(CallsOfOrder(k),
                                LAMBDA c : c.op = "insertOrderItem"))
                    = IF calls[k].ok
                      THEN Len(SelectSeq(transformedData.orderItems,
                             LAMBDA it : it.source_order_id = calls[k].key))
                      ELSE 0
               /\ calls[k].ok
                    => /\ Cardinality(stored) = 1
                       /\ \A j \in stored :
                            db.orders[j].customer_id =
                              IF lookedUp /\ calls[k - 1].ok
                              THEN CustomerIdByEmail(order.email)
                              ELSE NULL

\* an order was stored with the id of the customer found by its e-mail
\* address, and the upsert of another order failed, leaving no item of it
C24_Witness ==
  /\ LoadingDone
  /\ \E k \in 1..Len(calls) :
       /\ calls[k] = Call("upsertOrder", calls[k].key, TRUE)
       /\ k > 1 /\ calls[k - 1].op = "findCustomerId" /\ calls[k - 1].ok
       /\ CustomerIdByEmail(calls[k - 1].key) # NULL
  /\ Rejected(Ops({"upsertOrder"})) # << >>

\* the stored products of the run's source with this source id
ProductsBySourceId(sourceProductId) ==
  {k \in 1..Len(db.products) :
     /\ db.products[k].source_id = sourceProductId
     /\ db.products[k].source_type = RunSource}

\* C25: an order item whose source product id is the source id of a product
\* stored for the run's source is inserted with the id of that product as its
\* product reference; the reference is null only when the store holds no such
\* product
C25_ItemReferencesProduct ==
  calls # << >>
    => \A n \in 1..Len(loadResults.orderItems.inserted) :
         LET row == db.order_items[loadResults.orderItems.inserted[n].id]
             hits == ProductsBySourceId(row.source_product_id)
         IN /\ hits # {} => \E k \in hits : row.product_id = db.products[k].id
            /\ hits = {} => row.product_id = NULL

\* the processed_at of the stored orders linked to customer `id`
PurchaseTimes(id) ==
  {db.orders[k].processed_at :
     k \in {j \in 1..Len(db.orders) : db.orders[j].customer_id = id}}

\* C26: after a run completed Loading, every customer of the run's source
\* with at least one linked order in the store has first_purchase_date equal
\* to the earliest and last_purchase_date equal to the latest processed_at of
\* its orders
C26_PurchaseDates ==
  LoadingDone
    => \A k \in 1..Len(db.customers) :
         LET c == db.customers[k] IN
           c.source_type = RunSource /\ PurchaseTimes(c.id) # {}
             => /\ \A t \in PurchaseTimes(c.id) : c.first_purchase_date <= t
                /\ c.first_purchase_date \in PurchaseTimes(c.id)
                /\ \A t \in PurchaseTimes(c.id) : t <= c.last_purchase_date
                /\ c.last_purchase_date \in PurchaseTimes(c.id)

\* the stored orders of the run's source with source id `key`
StoredOrders(key) ==
  {k \in 1..Len(db.orders) :
     db.orders[k].source_id = key /\ db.orders[k].source_type = RunSource}
\* the stored order items of the order row `id`
StoredItems(id) ==
  {k \in 1..Len(db.order_items) : db.order_items[k].order_id = id}

\* C27: when a run has loaded an order, the store holds exactly one row for
\* it (by source id and source type) and one order item row per line item of
\* the order, also when the order was in the store before the run
C27_OrderLoadedOnce ==
  \A k \in 1..Len(calls) :
    calls[k] = Call("upsertOrder", calls[k].key, TRUE)
      => LET lineItems == SelectSeq(transformedData.orderItems,
                            LAMBDA it : it.source_order_id = calls[k].key)
         IN /\ Cardinality(StoredOrders(calls[k].key)) = 1
            /\ \A j \in StoredOrders(calls[k].key) :
                 /\ Cardinality(StoredItems(db.orders[j].id)) <= Len(lineItems)
                 /\ Rejected(Ops({"insertOrderItem"})) = << >>
                      => Cardinality(StoredItems(db.orders[j].id))
                           = Len(lineItems)

\* the labels the claim gives to four triples
ExpectedSegment(recency, frequency, monetary) ==
  CASE <<recency, frequency, monetary>> = <<1, 4, 4>> -> "At Risk"
    [] <<recency, frequency, monetary>> = <<1, 3, 5>> -> "Cannot Lose"
    [] <<recency, frequency, monetary>> = <<3, 4, 1>> -> "Price Sensitive"
    [] <<recency, frequency, monetary>> = <<3, 3, 3>> -> "Regular"
    [] OTHER -> ""

\* C28: with combinedScore the sum of the scores, determineSegment returns
\* At Risk for (1,4,4), Cannot Lose for (1,3,5), Price Sensitive for (3,4,1)
\* and Regular for (3,3,3), never Loyal Customers or Potential Loyalists
C28_LowScoreLabels ==
  calc.op = "determineSegment"
    => LET s == calc.rfmScores
           expected == ExpectedSegment(s.recency, s.frequency, s.monetary)
       IN (expected # ""
             /\ s.combinedScore = s.recency + s.frequency + s.monetary)
            => calc.result = expected

\* C29: when the query for the last successful run fails the run is not
\* failed by it: it goes on to fetch the customers, `since` is null and every
\* fetch is a full extraction, also when an earlier successful run of the
\* source is in the log; a run that fails afterwards fails for another reason
C29_LookupFailureIsFullExtraction ==
  (LookupDone /\ ~LookupOk) =>
    /\ since = NULL
    /\ \A k \in 1..Len(calls) : calls[k].op \in FetchOps => calls[k].since = NULL
    /\ LastCall.op = "getLastETLRun" => pc = "getCustomers" /\ error = << >>
    /\ failedAt[RunSource] # ""
         => \/ failedAt[RunSource] = "Transforming"
            \/ \E k \in 1..Len(calls) :
                 calls[k].op # "getLastETLRun" /\ ~calls[k].ok

\* the lookup failed while a successful run of the source was in the log, and
\* the run fetched everything and ended in success
C29_Witness ==
  /\ LookupDone /\ ~LookupOk
  /\ Watermark(db.etl_logs, RunSource, etlLog.started_at) # NULL
  /\ Extracted
  /\ Logged("success")

\* runForSource has reached a terminal state: its log is written with status
\* success or failed
Terminal == Logged("success") \/ Logged("failed")

\* C30: when every call returns or fails, a started runForSource reaches the
\* terminal state Success or Failed, and a run() in progress returns
C30_RunsTerminate ==
  /\ InRunForSource ~> Terminal
  /\ (outcome = "running") ~> (outcome = "returned")
====
